---- MODULE Spec2Model ----
(***************************************************************************)
(* A model of the Drive file viewer (src/app.py): the recursive            *)
(* summarizer, the per-file summary orchestration, the folder listing, the *)
(* result cache kept in the session and on disk, and the CSV export.       *)
(*                                                                         *)
(* Python strings are TLA+ strings; str.split, ' '.join, slicing and       *)
(* startswith are computed character by character.  None is the string     *)
(* NoneVal, which no program string equals.                                *)
(***************************************************************************)
EXTENDS Integers, Sequences, FiniteSets, TLC

VARIABLES
    SUMMARIZER_AVAILABLE,   \* app.py:32/35, fixed at import time
    summarizer,             \* app.py:55, the global model handle
    rs,                     \* the activation of recursive_summarize
    session,                \* the Flask session of one client
    tempDir,                \* TEMP_DIR: result id -> pickled blob
    uuidCount,              \* how many result ids uuid4 has handed out
    response,               \* the reply of the latest request
    probe,                  \* what the latest request touched (cache, Drive)
    call                    \* the latest direct call of a function: arguments, result

vars == <<SUMMARIZER_AVAILABLE, summarizer, rs, session, tempDir, uuidCount,
          response, probe, call>>

-----------------------------------------------------------------------------
(* Python values and string functions *)

NoneVal == "<None>"

Min(a, b) == IF a < b THEN a ELSE b

\* the characters str.split() treats as separators
IsSpace(c) == c \in {" ", "\t", "\n"}

\* text.split(): the maximal runs of non-whitespace characters, in order
RECURSIVE Split(_)
Split(s) ==
    IF Len(s) = 0 THEN <<>>
    ELSE IF Len(s) = 1 THEN (IF IsSpace(s) THEN <<>> ELSE <<s>>)
    ELSE LET m == Len(s) \div 2
             l == Split(SubSeq(s, 1, m))
             r == Split(SubSeq(s, m + 1, Len(s)))
         IN  IF ~IsSpace(SubSeq(s, m, m)) /\ ~IsSpace(SubSeq(s, m + 1, m + 1))
             THEN SubSeq(l, 1, Len(l) - 1) \o <<l[Len(l)] \o r[1]>>
                  \o SubSeq(r, 2, Len(r))
             ELSE l \o r

\* ' '.join(seq)
RECURSIVE Join(_)
Join(seq) ==
    IF Len(seq) = 0 THEN ""
    ELSE IF Len(seq) = 1 THEN seq[1]
    ELSE LET m == Len(seq) \div 2
         IN  Join(SubSeq(seq, 1, m)) \o " " \o Join(SubSeq(seq, m + 1, Len(seq)))

\* s[:n]
Prefix(s, n) == SubSeq(s, 1, Min(n, Len(s)))

\* s.startswith(p)
StartsWith(s, p) == Len(s) >= Len(p) /\ SubSeq(s, 1, Len(p)) = p

\* s.strip() is non-empty
HasNonSpace(s) == \E i \in 1..Len(s) : ~IsSpace(SubSeq(s, i, i))

-----------------------------------------------------------------------------
(* The summarization model: a black box that returns a summary, returns an *)
(* empty result, or raises.                                                *)

SummaryMin == 10
SummaryMax == 25
ErrorPrefixLen == 50
chunk_size == 800
DefaultMaxLength == 900
DefaultMaxDepth == 3

\* what the model can answer one call with
SummaryTexts == {"s1", "s1 s2 s3"}
ErrorMessages ==
    {"boom", "CUDA out of memory while running the summarization pipeline, giving up"}
ModelOutcomes ==
    {[kind |-> "ok", text |-> s] : s \in SummaryTexts}
    \cup {[kind |-> "empty", text |-> ""]}
    \cup {[kind |-> "raise", text |-> m] : m \in ErrorMessages}

\* calling None raises TypeError inside the caller's try block
NoneTypeMsg == "'NoneType' object is not callable"

\* the keyword arguments of every call of the model (app.py:81, 108, 229)
ModelBounds == [min_length |-> SummaryMin, max_length |-> SummaryMax]

\* summarizer(text, max_length=25, min_length=10, do_sample=False)
Invoke(handle, outcome) ==
    IF handle = NoneVal THEN [kind |-> "raise", text |-> NoneTypeMsg] ELSE outcome

-----------------------------------------------------------------------------
(* recursive_summarize, app.py:72-129.  The recursive call is a tail call, *)
(* so one activation record, rewritten on recursion, is the whole stack.   *)

BaseEmptyMsg == "Could not generate summary"
BaseErrorPrefix == "Could not summarize: "
NoChunkMsg == "Could not generate summary for any chunk"

\* a slip in the depth test: one level too many
IsBaseCaseOffByOne(words, max_length, depth, max_depth) ==
    Len(words) <= max_length \/ depth > max_depth

\* app.py:78
IsBaseCase(words, max_length, depth, max_depth) ==
    Len(words) <= max_length \/ depth >= max_depth

\* a slip in the base case: the words are not cut to max_length
BaseInputWhole(words, max_length) == Join(words)

\* app.py:81, the text handed to the model in the base case
BaseInput(words, max_length) == Join(SubSeq(words, 1, Min(max_length, Len(words))))

\* a slip in the error path: the message is not cut to 50 characters
BaseResultUntruncated(answer) ==
    CASE answer.kind = "ok"    -> answer.text
      [] answer.kind = "empty" -> BaseEmptyMsg
      [] answer.kind = "raise" -> BaseErrorPrefix \o answer.text

\* app.py:82-89, what the base case returns for the model's answer
BaseResult(answer) ==
    CASE answer.kind = "ok"    -> answer.text
      [] answer.kind = "empty" -> BaseEmptyMsg
      [] answer.kind = "raise" -> BaseErrorPrefix \o Prefix(answer.text, ErrorPrefixLen)

\* app.py:97-99
MakeChunks(words) ==
    [k \in 1..((Len(words) + chunk_size - 1) \div chunk_size) |->
        Join(SubSeq(words, (k - 1) * chunk_size + 1, Min(k * chunk_size, Len(words))))]

\* a slip in the loop: the text of a failed call is kept as a summary
AfterChunkKeepsFailures(chunk_summaries, answer) == Append(chunk_summaries, answer.text)

\* app.py:108-117, the list of chunk summaries after one chunk's answer
AfterChunk(chunk_summaries, answer) ==
    IF answer.kind = "ok" THEN Append(chunk_summaries, answer.text) ELSE chunk_summaries

\* app.py:106-117: does the chunk's answer leave the loop running?  Both the
\* raising call and the empty answer are handled inside the loop body.
ChunkHandled(answer) == answer.kind \in {"ok", "empty", "raise"}

\* the activation at entry, after words = text.split() (app.py:72-75)
Activation(text, max_length, depth, max_depth, old) ==
    [pc |-> "call", text |-> text, max_length |-> max_length, depth |-> depth,
     max_depth |-> max_depth, words |-> Split(text), chunks |-> <<>>, i |-> 0,
     chunk_summaries |-> <<>>, result |-> NoneVal,
     \* bookkeeping of the run, not program state
     depth0 |-> old.depth0, words0 |-> old.words0, rounds |-> old.rounds,
     calls |-> old.calls, roundOk |-> 0, via |-> "none",
     lastArg |-> old.lastArg, lastBounds |-> old.lastBounds,
     lastAnswer |-> old.lastAnswer]

NoRun == [depth0 |-> 0, words0 |-> 0, rounds |-> 0, calls |-> 0,
          lastArg |-> NoneVal, lastBounds |-> NoneVal,
          lastAnswer |-> [kind |-> "none", text |-> ""]]

\* where the activation stands: which statement runs next
AtBaseCase(r) == r.pc = "call" /\ IsBaseCase(r.words, r.max_length, r.depth, r.max_depth)
AtSplitChunks(r) ==
    r.pc = "call" /\ ~IsBaseCase(r.words, r.max_length, r.depth, r.max_depth)
AtChunk(r) == r.pc = "loop" /\ r.i <= Len(r.chunks)
AtAfterLoop(r) == r.pc = "loop" /\ r.i > Len(r.chunks)

\* app.py:78-89
RS_BaseCase ==
    /\ AtBaseCase(rs)
    /\ \E outcome \in ModelOutcomes :
         LET answer == Invoke(summarizer, outcome) IN
         rs' = [rs EXCEPT !.pc = "done", !.result = BaseResult(answer),
                          !.rounds = @ + 1, !.calls = @ + 1, !.via = "base",
                          !.lastArg = BaseInput(rs.words, rs.max_length),
                          !.lastBounds = ModelBounds,
                          !.lastAnswer = answer]
    /\ UNCHANGED <<SUMMARIZER_AVAILABLE, summarizer, session, tempDir, uuidCount,
                   response, probe, call>>

\* app.py:91-104
RS_SplitChunks ==
    /\ AtSplitChunks(rs)
    /\ rs' = [rs EXCEPT !.pc = "loop", !.chunks = MakeChunks(rs.words), !.i = 1,
                        !.chunk_summaries = <<>>, !.rounds = @ + 1]
    /\ UNCHANGED <<SUMMARIZER_AVAILABLE, summarizer, session, tempDir, uuidCount,
                   response, probe, call>>

\* app.py:105-117, one iteration of the loop over the chunks
RS_SummarizeChunk ==
    /\ AtChunk(rs)
    /\ \E outcome \in ModelOutcomes :
         LET answer == Invoke(summarizer, outcome) IN
         rs' = [rs EXCEPT !.pc = IF ChunkHandled(answer) THEN "loop" ELSE "raised",
                          !.chunk_summaries = AfterChunk(@, answer),
                          !.i = @ + 1, !.calls = @ + 1,
                          !.roundOk = IF answer.kind = "ok" THEN @ + 1 ELSE @,
                          !.lastArg = rs.chunks[rs.i], !.lastBounds = ModelBounds,
                          !.lastAnswer = answer]
    /\ UNCHANGED <<SUMMARIZER_AVAILABLE, summarizer, session, tempDir, uuidCount,
                   response, probe, call>>

\* a slip after the loop: the empty list of summaries is not tested
AfterLoopAlwaysRecurse(r) ==
    Activation(Join(r.chunk_summaries), r.max_length, r.depth + 1, r.max_depth, r)

\* app.py:119-129, after the loop: give up, or recurse on the joined summaries
AfterLoop(r) ==
    IF r.chunk_summaries = <<>>
    THEN [r EXCEPT !.pc = "done", !.result = NoChunkMsg, !.via = "nochunk"]
    ELSE Activation(Join(r.chunk_summaries), r.max_length, r.depth + 1, r.max_depth, r)

RS_AfterLoop ==
    /\ AtAfterLoop(rs)
    /\ rs' = AfterLoop(rs)
    /\ UNCHANGED <<SUMMARIZER_AVAILABLE, summarizer, session, tempDir, uuidCount,
                   response, probe, call>>

-----------------------------------------------------------------------------
(* More string functions of the listing code *)

Uppers == "ABCDEFGHIJKLMNOPQRSTUVWXYZ"
Lowers == "abcdefghijklmnopqrstuvwxyz"
\* the characters of the modelled names, in code point order
CodeOrder == " ./0123456789" \o Uppers \o "_" \o Lowers

IndexIn(alphabet, c) ==
    IF \E k \in 1..Len(alphabet) : SubSeq(alphabet, k, k) = c
    THEN CHOOSE k \in 1..Len(alphabet) : SubSeq(alphabet, k, k) = c
    ELSE 0

LowerChar(c) ==
    IF IndexIn(Uppers, c) > 0 THEN SubSeq(Lowers, IndexIn(Uppers, c), IndexIn(Uppers, c))
    ELSE c
UpperChar(c) ==
    IF IndexIn(Lowers, c) > 0 THEN SubSeq(Uppers, IndexIn(Lowers, c), IndexIn(Lowers, c))
    ELSE c

\* s.lower(), s.upper()
RECURSIVE Lower(_)
Lower(s) == IF s = "" THEN "" ELSE LowerChar(SubSeq(s, 1, 1)) \o Lower(SubSeq(s, 2, Len(s)))
RECURSIVE Upper(_)
Upper(s) == IF s = "" THEN "" ELSE UpperChar(SubSeq(s, 1, 1)) \o Upper(SubSeq(s, 2, Len(s)))

\* sub in s
Contains(s, sub) ==
    \E k \in 1..(Len(s) + 1) :
        k + Len(sub) - 1 <= Len(s) /\ SubSeq(s, k, k + Len(sub) - 1) = sub

\* s.split('.')[-1]: what follows the last dot, the whole of s when it has none
AfterLastDot(s) ==
    LET dots == {k \in 1..Len(s) : SubSeq(s, k, k) = "."}
    IN  IF dots = {} THEN s
        ELSE SubSeq(s, (CHOOSE k \in dots : \A j \in dots : j <= k) + 1, Len(s))

\* a < b for strings, by code point
RECURSIVE StrLess(_, _)
StrLess(a, b) ==
    IF b = "" THEN FALSE
    ELSE IF a = "" THEN TRUE
    ELSE LET x == IndexIn(CodeOrder, SubSeq(a, 1, 1))
             y == IndexIn(CodeOrder, SubSeq(b, 1, 1))
         IN  IF x # y THEN x < y
             ELSE StrLess(SubSeq(a, 2, Len(a)), SubSeq(b, 2, Len(b)))

\* '\n'.join(seq)
RECURSIVE JoinLines(_)
JoinLines(seq) ==
    IF Len(seq) = 0 THEN ""
    ELSE IF Len(seq) = 1 THEN seq[1]
    ELSE seq[1] \o "\n" \o JoinLines(Tail(seq))

\* f"{num/den:.1f}" for a power of two den: the quotient is exact in a
\* double and the format rounds half to even
OneDecimal(num, den) ==
    LET q == (num * 10) \div den
        r == (num * 10) % den
        t == IF 2 * r > den THEN q + 1
             ELSE IF 2 * r = den THEN q + (q % 2)
             ELSE q
    IN  ToString(t \div 10) \o "." \o ToString(t % 10)

-----------------------------------------------------------------------------
(* generate_metadata_summary, app.py:131-170 *)

Kilo == 1024
\* file_size = None (app.py:424): no size is known
NoSize == -1

\* app.py:135-144; None and 0 are both falsy
SizeInfo(file_size) ==
    IF file_size = NoSize \/ file_size = 0 THEN ""
    ELSE IF file_size < Kilo THEN ToString(file_size) \o " bytes"
    ELSE IF file_size < Kilo * Kilo THEN OneDecimal(file_size, Kilo) \o " KB"
    ELSE OneDecimal(file_size, Kilo * Kilo) \o " MB"

ExcelTypes == {"application/vnd.ms-excel",
               "application/vnd.openxmlformats-officedocument.spreadsheetml.sheet"}
PowerPointTypes == {"application/vnd.ms-powerpoint",
                    "application/vnd.openxmlformats-officedocument.presentationml.presentation"}
ZipTypes == {"application/zip", "application/x-zip-compressed"}

\* app.py:133
MetaExt(file_name) == IF Contains(file_name, ".") THEN Lower(AfterLastDot(file_name)) ELSE ""

\* a formatter that names every file by its extension
ExtensionSummaryOnly(file_name, file_type, file_size) ==
    (IF MetaExt(file_name) # "" THEN Upper(MetaExt(file_name)) ELSE "Unknown") \o " file"
    \o (IF SizeInfo(file_size) # "" THEN " (" \o SizeInfo(file_size) \o ")" ELSE "") \o "."

generate_metadata_summary(file_name, file_type, file_size) ==
    LET size_info == SizeInfo(file_size)
        suffix == (IF size_info # "" THEN " (" \o size_info \o ")" ELSE "") \o "."
        file_ext == MetaExt(file_name)
    IN  CASE StartsWith(file_type, "image/") -> "Image file" \o suffix
          [] StartsWith(file_type, "video/") -> "Video file" \o suffix
          [] StartsWith(file_type, "audio/") -> "Audio file" \o suffix
          [] file_type = "application/pdf" -> "PDF document" \o suffix
          [] file_type \in ExcelTypes -> "Excel spreadsheet" \o suffix
          [] file_type \in PowerPointTypes -> "PowerPoint presentation" \o suffix
          [] file_type \in ZipTypes -> "ZIP archive" \o suffix
          [] OTHER -> (IF file_ext # "" THEN Upper(file_ext) ELSE "Unknown")
                      \o " file" \o suffix

-----------------------------------------------------------------------------
(* generate_file_summary and initialize_summarizer, app.py:57-70, 172-241. *)
(* What the world does while one file is processed is an env record:       *)
(*   meta  "ok" | "raise"   the files().get call for size and dates        *)
(*   data  "fail" | "blank" | "text"   what download or OCR yields         *)
(*   init  TRUE | FALSE     whether pipeline(...) can be constructed       *)
(*   model                  how the model answers the calls for this file  *)

NoContentMsg == "No content to summarize"
NotInstalledMsg == "Summary not available (model not installed)"
InitFailedMsg == "Summary not available (model initialization failed)"
DisabledMsg == "Summary generation disabled"
ErrorSummaryPrefix == "Error generating summary: "
max_direct_words == 900

binary_extensions == {"jpg", "jpeg", "png", "gif", "bmp", "tiff", "mp4", "avi", "mov",
                      "wmv", "mp3", "wav", "ogg", "pdf", "zip", "exe", "dll"}
ocr_exts == {"pdf"}

\* app.py:193-195
UsesMetadataSummary(file_name, file_type) ==
    LET file_ext == MetaExt(file_name)
    IN  \/ file_ext \in binary_extensions /\ file_ext \notin ocr_exts
        \/ /\ file_type # NoneVal /\ file_type # ""
           /\ ~StartsWith(file_type, "text/")
           /\ ~Contains(file_type, "document")
           /\ ~Contains(file_type, "sheet")

\* recursive_summarize run to its return value, the model answering every
\* call of the run alike (app.py:72-129)
RECURSIVE ChunkSummaries(_, _)
ChunkSummaries(chunks, answer) ==
    IF chunks = <<>> THEN <<>>
    ELSE <<>> \o AfterChunk(<<>>, answer) \o ChunkSummaries(Tail(chunks), answer)

RECURSIVE recursive_summarize(_, _, _, _, _, _)
recursive_summarize(text, max_length, depth, max_depth, handle, outcome) ==
    LET answer == Invoke(handle, outcome) IN
    IF IsBaseCase(Split(text), max_length, depth, max_depth)
    THEN BaseResult(answer)
    ELSE IF ChunkSummaries(MakeChunks(Split(text)), answer) = <<>>
    THEN NoChunkMsg
    ELSE recursive_summarize(Join(ChunkSummaries(MakeChunks(Split(text)), answer)),
                             max_length, depth + 1, max_depth, handle, outcome)

\* an initializer that remembers a failed construction in the global
InitializeRemembersFailure(handle, env) ==
    IF SUMMARIZER_AVAILABLE /\ handle = NoneVal
    THEN IF env.init THEN [ok |-> TRUE, handle |-> "pipeline"]
         ELSE [ok |-> FALSE, handle |-> "failed"]
    ELSE [ok |-> SUMMARIZER_AVAILABLE, handle |-> handle]

\* initialize_summarizer, app.py:57-70: [ok, handle]
initialize_summarizer(handle, env) ==
    IF SUMMARIZER_AVAILABLE /\ handle = NoneVal
    THEN IF env.init THEN [ok |-> TRUE, handle |-> "pipeline"]
         ELSE [ok |-> FALSE, handle |-> handle]
    ELSE [ok |-> SUMMARIZER_AVAILABLE, handle |-> handle]

\* a slip in the threshold: 900 words already go the recursive way
UsesRecursiveFromThreshold(word_count) == word_count >= max_direct_words

\* app.py:223
UsesRecursive(word_count) == word_count > max_direct_words

\* app.py:213-237, the model part once a handle is there
SummarizeWithModel(file_content, file_name, handle, env) ==
    LET cleaned_content == Join(Split(file_content))
        word_count == Len(Split(cleaned_content))
        answer == Invoke(handle, env.model)
    IN  IF UsesRecursive(word_count)
        THEN recursive_summarize(cleaned_content, DefaultMaxLength, 0, DefaultMaxDepth,
                                 handle, env.model)
        ELSE CASE answer.kind = "ok" -> answer.text
               [] answer.kind = "empty" -> "Could not generate summary for " \o file_name
               [] answer.kind = "raise" ->
                      ErrorSummaryPrefix \o Prefix(answer.text, ErrorPrefixLen)

\* app.py:172-241: [summary, handle]
generate_file_summary(file_content, file_name, file_type, file_size, handle, env) ==
    IF file_content = NoneVal \/ Len(file_content) = 0
    THEN [summary |-> NoContentMsg, handle |-> handle]
    ELSE IF UsesMetadataSummary(file_name, file_type)
    THEN [summary |-> generate_metadata_summary(
                          file_name,
                          IF file_type = NoneVal \/ file_type = ""
                          THEN "application/octet-stream" ELSE file_type,
                          file_size),
          handle |-> handle]
    ELSE IF ~SUMMARIZER_AVAILABLE
    THEN [summary |-> NotInstalledMsg, handle |-> handle]
    ELSE LET init == IF handle = NoneVal THEN initialize_summarizer(handle, env)
                     ELSE [ok |-> TRUE, handle |-> handle]
         IN  IF ~init.ok
             THEN [summary |-> InitFailedMsg, handle |-> init.handle]
             ELSE [summary |-> SummarizeWithModel(file_content, file_name,
                                                  init.handle, env),
                   handle |-> init.handle]

-----------------------------------------------------------------------------
(* Google Drive as the requests see it: two folders, Docs holding a text   *)
(* file, the folder Sub and a Markdown file, Sub holding a PDF.            *)

FolderMime == "application/vnd.google-apps.folder"

FileA == [id |-> "a", name |-> "a.txt", mimeType |-> "text/plain",
          webViewLink |-> "https://drive.example/a", size |-> 12]
FolderSub == [id |-> "F2", name |-> "Sub", mimeType |-> FolderMime,
              webViewLink |-> "https://drive.example/F2"]
FileC == [id |-> "c", name |-> "c.pdf", mimeType |-> "application/pdf",
          webViewLink |-> "https://drive.example/c", size |-> 2048]

FileB == [id |-> "b", name |-> "B.md", mimeType |-> "text/markdown",
          webViewLink |-> "https://drive.example/b", size |-> 0]

DriveFolders == {"F1", "F2"}
FileIds == {"a", "b", "c"}
DriveName(id) ==
    CASE id = "F1" -> "Docs" [] id = "F2" -> "Sub"
      [] id = "a" -> "a.txt" [] id = "b" -> "B.md" [] id = "c" -> "c.pdf"
DriveMime(id) ==
    CASE id \in DriveFolders -> FolderMime
      [] id = "a" -> "text/plain" [] id = "b" -> "text/markdown"
      [] id = "c" -> "application/pdf"
\* the children of a folder, in the order files().list returns them
DriveChildren(folder_id) ==
    CASE folder_id = "F1" -> <<FileA, FolderSub, FileB>>
      [] folder_id = "F2" -> <<FileC>>
      [] OTHER -> <<>>
DriveIds == DriveFolders \cup FileIds

\* what the downloaded bytes of a file decode to
FileText(id) ==
    CASE id = "a" -> "hello  world\tfrom a" [] id = "b" -> "# notes\nfrom b"
      [] OTHER -> "%PDF-1.4"
\* what OCR reads on the pages of a PDF (ocr_utils.py:50-53)
PageTexts(data) == IF data = "text" THEN <<"page one", "page two">> ELSE <<" ", "">>

DriveDownMsg == "HttpError 503: backend unavailable"

\* the world during one request: an env per file, and Drive itself
FileEnvs ==
    {e \in [meta : {"ok", "raise"}, data : {"fail", "blank", "text"},
            init : BOOLEAN, model : ModelOutcomes] :
        /\ e.model.kind = "ok" => e.model.text = "s1"
        /\ e.model.kind = "raise" => e.model.text = "boom"
        /\ e.data # "text" => (e.init /\ e.model.kind = "ok")
        /\ ~e.init => e.model.kind = "ok"
        /\ e.meta = "raise" => e.data = "blank"}
AllGoesWell ==
    [meta |-> "ok", data |-> "text", init |-> TRUE, model |-> [kind |-> "ok", text |-> "s1"]]
LongErrorMsg == "CUDA out of memory while running the summarization pipeline, giving up"
ModelRaises == [AllGoesWell EXCEPT !.model = [kind |-> "raise", text |-> LongErrorMsg]]
RequestEnvs ==
    {[files |-> [f \in FileIds |-> e], drive |-> "ok"] : e \in FileEnvs}
    \cup {[files |-> [f \in FileIds |-> IF f = g THEN ModelRaises ELSE AllGoesWell],
           drive |-> "ok"] : g \in FileIds}
    \cup {[files |-> [f \in FileIds |-> AllGoesWell], drive |-> d] : d \in {"down", "listfail"}}
CalmEnv == [files |-> [f \in FileIds |-> AllGoesWell], drive |-> "ok"]

-----------------------------------------------------------------------------
(* list_files_in_folder, app.py:362-510 *)

\* download_file_content, app.py:314-346: the text, or None on any failure
download_file_content(item, env) ==
    CASE env.data = "fail" -> NoneVal
      [] env.data = "blank" -> ""
      [] env.data = "text" -> FileText(item.id)

\* extract_text_from_file_bytes on the downloaded bytes, with the caller's
\* except (app.py:449-454, ocr_utils.py:44-54): '' when anything raises
ExtractedText(item, env) ==
    IF env.data = "fail" THEN "" ELSE JoinLines(PageTexts(env.data))

\* app.py:424-442
FetchedSize(item, env) ==
    IF env.meta = "ok" /\ "size" \in DOMAIN item THEN item.size ELSE NoSize

\* app.py:444-483: [summary, handle] of one file when summaries are made
IsOcrFile(item) == Lower(AfterLastDot(item.name)) \in ocr_exts
SummaryInput(item, env) ==
    IF IsOcrFile(item) THEN ExtractedText(item, env) ELSE download_file_content(item, env)
SummaryOfFile(item, handle, env) ==
    IF IsOcrFile(item) /\ ~HasNonSpace(ExtractedText(item, env))
    THEN [summary |-> generate_metadata_summary(item.name, item.mimeType,
                                                FetchedSize(item, env)),
          handle |-> handle]
    ELSE generate_file_summary(SummaryInput(item, env), item.name, item.mimeType,
                               FetchedSize(item, env), handle, env)

\* app.py:410-418
ListedItem(item) ==
    [id |-> item.id, name |-> item.name,
     type |-> IF item.mimeType = FolderMime THEN "folder" ELSE "file",
     mimeType |-> item.mimeType,
     webViewLink |-> IF "webViewLink" \in DOMAIN item THEN item.webViewLink ELSE "",
     size |-> IF "size" \in DOMAIN item THEN item.size ELSE 0]

\* adds the key 'summary' to a dict
WithSummary(d, summary) ==
    [k \in DOMAIN d \cup {"summary"} |-> IF k = "summary" THEN summary ELSE d[k]]

\* the entry with the summary made for it, and the handle the making left
Summarized(entry, got) == [item |-> WithSummary(entry, got.summary), handle |-> got.handle]

\* app.py:420-490, the summary branch of one item: [item, handle]
ListSummaryBranch(item, generate_summaries, handle, env) ==
    IF generate_summaries /\ item.mimeType # FolderMime /\ SUMMARIZER_AVAILABLE
    THEN Summarized(ListedItem(item), SummaryOfFile(item, handle, env))
    ELSE IF item.mimeType # FolderMime
    THEN [item |-> WithSummary(ListedItem(item), DisabledMsg), handle |-> handle]
    ELSE [item |-> ListedItem(item), handle |-> handle]

\* a loop that stops taking items once a file's summary has failed
AppendedUntilError(done, one) ==
    IF /\ done.items # <<>>
       /\ "summary" \in DOMAIN done.items[Len(done.items)]
       /\ StartsWith(done.items[Len(done.items)].summary, ErrorSummaryPrefix)
    THEN [items |-> done.items, handle |-> one.handle]
    ELSE [items |-> Append(done.items, one.item), handle |-> one.handle]

\* app.py:492, items.append(file_info)
Appended(done, one) == [items |-> Append(done.items, one.item), handle |-> one.handle]

\* app.py:408-492, the loop over the items: [items, handle]
RECURSIVE ProcessItems(_, _, _, _)
ProcessItems(items, generate_summaries, env, done) ==
    IF items = <<>> THEN done
    ELSE ProcessItems(Tail(items), generate_summaries, env,
                      Appended(done, ListSummaryBranch(Head(items), generate_summaries,
                                                       done.handle,
                                                       env.files[Head(items).id])))

\* a sort key that compares the names as they are written
KeyLessCaseSensitive(x, y) ==
    \/ x.type = "folder" /\ y.type # "folder"
    \/ /\ (x.type = "folder") = (y.type = "folder")
       /\ StrLess(x.name, y.name)

\* app.py:497, the sort key (x['type'] != 'folder', x['name'].lower())
KeyLess(x, y) ==
    \/ x.type = "folder" /\ y.type # "folder"
    \/ /\ (x.type = "folder") = (y.type = "folder")
       /\ StrLess(Lower(x.name), Lower(y.name))

\* list.sort is stable: an item goes behind every item whose key is not greater
RECURSIVE InsertSorted(_, _)
InsertSorted(sorted, x) ==
    IF sorted = <<>> THEN <<x>>
    ELSE IF KeyLess(x, Head(sorted)) THEN <<x>> \o sorted
    ELSE <<Head(sorted)>> \o InsertSorted(Tail(sorted), x)
RECURSIVE SortItems(_, _)
SortItems(items, sorted) ==
    IF items = <<>> THEN sorted
    ELSE SortItems(Tail(items), InsertSorted(sorted, Head(items)))

\* app.py:497-506, the sorted items in the result dict
Listing(folder_id, generate_summaries, processed) ==
    [value |-> [items |-> SortItems(processed.items, <<>>),
                folderName |-> DriveName(folder_id),
                folderId |-> folder_id,
                summaries_enabled |-> generate_summaries /\ SUMMARIZER_AVAILABLE,
                summaries_available |-> SUMMARIZER_AVAILABLE],
     handle |-> processed.handle]

\* list_files_in_folder: [value, handle], value the result dict or {'error': ...}
list_files_in_folder(folder_id, generate_summaries, handle, env) ==
    IF folder_id = NoneVal \/ folder_id = ""
    THEN [value |-> [error |-> "Invalid folder ID"], handle |-> handle]
    ELSE IF env.drive = "down"
    THEN [value |-> [error |-> "Cannot access folder: " \o DriveDownMsg], handle |-> handle]
    ELSE IF folder_id \notin DriveIds
    THEN [value |-> [error |-> "Cannot access folder: File not found: " \o folder_id],
          handle |-> handle]
    ELSE IF DriveMime(folder_id) # FolderMime
    THEN [value |-> [error |-> "The ID " \o folder_id \o " is not a folder"],
          handle |-> handle]
    ELSE IF env.drive = "listfail"
    THEN [value |-> [error |-> DriveDownMsg], handle |-> handle]
    ELSE Listing(folder_id, generate_summaries,
                 ProcessItems(DriveChildren(folder_id), generate_summaries, env,
                              [items |-> <<>>, handle |-> handle]))

-----------------------------------------------------------------------------
(* The result cache as export_csv and get_all_files_recursive read it:     *)
(* the pointer in the session, the pickled blob in TEMP_DIR.               *)

HasPointer == {"last_folder_result_id", "last_folder_id"} \subseteq DOMAIN session

\* app.py:652-654, 664-666, 870-872: a summary worth reusing
UsableSummary(summary) ==
    /\ summary # ""
    /\ summary # DisabledMsg
    /\ ~StartsWith(summary, "Error generating summary")

\* item.get('summary', '')
SummaryOrEmpty(item) == IF "summary" \in DOMAIN item THEN item.summary ELSE ""
TypeOf(item) == IF "type" \in DOMAIN item THEN item.type ELSE NoneVal

\* a check that takes any stored file for a usable summary
HasAnyFile(cached_items) ==
    \E k \in 1..Len(cached_items) : TypeOf(cached_items[k]) = "file"

\* app.py:652-655
HasUsableSummaries(cached_items) ==
    \E k \in 1..Len(cached_items) :
        TypeOf(cached_items[k]) = "file" /\ UsableSummary(SummaryOrEmpty(cached_items[k]))

\* pickle.load of the blob the pointer names: "missing" when the file does
\* not exist, "raises" when it does not unpickle, else the stored dict
LoadPointedBlob ==
    LET result_id == session["last_folder_result_id"]
    IN  IF result_id \notin DOMAIN tempDir THEN [state |-> "missing"]
        ELSE IF tempDir[result_id].kind # "pickle" THEN [state |-> "raises"]
        ELSE [state |-> "loaded", value |-> tempDir[result_id].value]

\* what one walk has gathered: the items, the model handle, and the record
\* of which blobs it read, which folders it served from the cache, which
\* folders it listed on Drive and which calls it made
NewWalk(handle) ==
    [items |-> <<>>, handle |-> handle, reads |-> {}, served |-> {}, lists |-> {},
     walks |-> {}]

\* app.py:668-675
CachedFileEntry(item, folder_name) ==
    [folder_path |-> folder_name, name |-> item.name, is_folder |-> FALSE,
     webViewLink |-> IF "webViewLink" \in DOMAIN item THEN item.webViewLink ELSE "",
     summary |-> IF UsableSummary(SummaryOrEmpty(item)) THEN SummaryOrEmpty(item)
                 ELSE DisabledMsg,
     notes |-> ""]

\* app.py:679-683, 723-727
FolderEntry(item, folder_path) ==
    [folder_path |-> folder_path, name |-> item.name, is_folder |-> TRUE]

\* app.py:737-744
DriveFileEntry(item, folder_path) ==
    [folder_path |-> folder_path, name |-> item.name, is_folder |-> FALSE,
     webViewLink |-> IF "webViewLink" \in DOMAIN item THEN item.webViewLink ELSE "",
     id |-> item.id, mimeType |-> item.mimeType]

WithNotes(d) == [k \in DOMAIN d \cup {"notes"} |-> IF k = "notes" THEN "" ELSE d[k]]

\* app.py:746-820, one file found on Drive: [item, handle]
WalkSummaryBranch(item, folder_path, include_summaries, handle, env) ==
    IF include_summaries /\ SUMMARIZER_AVAILABLE
    THEN Summarized(WithNotes(DriveFileEntry(item, folder_path)),
                    SummaryOfFile(item, handle, env))
    ELSE IF ~include_summaries
    THEN [item |-> WithNotes(WithSummary(DriveFileEntry(item, folder_path), DisabledMsg)),
          handle |-> handle]
    ELSE [item |-> WithNotes(DriveFileEntry(item, folder_path)), handle |-> handle]

\* app.py:822, items.append(item_info)
WalkAppended(walk, one) ==
    [walk EXCEPT !.items = Append(@, one.item), !.handle = one.handle]

\* app.py:686-692, 729-735: the folder's entry, then what the walk of the
\* folder returned (items.extend); the rest of the record is the sub-walk's
Under(walk, entry, sub) == [sub EXCEPT !.items = Append(walk.items, entry) \o sub.items]

\* app.py:630-830.  CachedLoop is the loop of lines 660-694 ([walk, failed]:
\* a cached item without the key it needs raises KeyError and leaves what
\* was appended so far), DriveLoop the loop of lines 718-820.
RECURSIVE get_all_files_recursive(_, _, _, _, _)
RECURSIVE CachedLoop(_, _, _, _, _, _)
RECURSIVE DriveLoop(_, _, _, _, _)

CachedLoop(cached_items, folder_name, folder_path, include_summaries, walk, env) ==
    IF cached_items = <<>> THEN [walk |-> walk, failed |-> FALSE]
    ELSE IF TypeOf(Head(cached_items)) \notin {"file", "folder"}
    THEN CachedLoop(Tail(cached_items), folder_name, folder_path, include_summaries,
                    walk, env)
    ELSE IF "name" \notin DOMAIN Head(cached_items)
    THEN [walk |-> walk, failed |-> TRUE]
    ELSE IF TypeOf(Head(cached_items)) = "file"
    THEN CachedLoop(Tail(cached_items), folder_name, folder_path, include_summaries,
                    [walk EXCEPT !.items =
                        Append(@, CachedFileEntry(Head(cached_items), folder_name))],
                    env)
    ELSE IF "id" \notin DOMAIN Head(cached_items)
    THEN [walk |-> [walk EXCEPT !.items =
                       Append(@, FolderEntry(Head(cached_items), folder_name))],
          failed |-> TRUE]
    ELSE CachedLoop(Tail(cached_items), folder_name, folder_path, include_summaries,
                    Under(walk, FolderEntry(Head(cached_items), folder_name),
                          get_all_files_recursive(
                              Head(cached_items).id,
                              folder_path \o "/" \o Head(cached_items).name,
                              include_summaries, [walk EXCEPT !.items = <<>>], env)),
                    env)

DriveLoop(files, folder_path, include_summaries, walk, env) ==
    IF files = <<>> THEN walk
    ELSE IF Head(files).mimeType = FolderMime
    THEN DriveLoop(Tail(files), folder_path, include_summaries,
                   Under(walk, FolderEntry(Head(files), folder_path),
                         get_all_files_recursive(
                             Head(files).id, folder_path \o "/" \o Head(files).name,
                             include_summaries, [walk EXCEPT !.items = <<>>], env)),
                   env)
    ELSE DriveLoop(Tail(files), folder_path, include_summaries,
                   WalkAppended(walk, WalkSummaryBranch(Head(files), folder_path,
                                                        include_summaries, walk.handle,
                                                        env.files[Head(files).id])),
                   env)

\* app.py:703-830, the walk over Drive; a failing list call ends the loop
\* with what the items list holds
FetchFromDrive(folder_id, folder_path, include_summaries, walk, env) ==
    IF env.drive # "ok" THEN [walk EXCEPT !.lists = @ \cup {folder_id}]
    ELSE DriveLoop(DriveChildren(folder_id), folder_path, include_summaries,
                   [walk EXCEPT !.lists = @ \cup {folder_id}], env)

\* a check that leaves out the comparison of the folder ids
WalkTriesCacheAnyFolder(folder_id, include_summaries) ==
    include_summaries /\ HasPointer

\* app.py:636-637
WalkTriesCache(folder_id, include_summaries) ==
    include_summaries /\ HasPointer /\ session["last_folder_id"] = folder_id

\* app.py:641, 646-647: the blob was opened
Read(walk, folder_id) == [walk EXCEPT !.reads = @ \cup {folder_id}]

\* app.py:636-701, the attempt on the stored listing: [walk, failed]; where
\* it failed the walk goes on to Drive with what the attempt left
CachedAttempt(folder_id, folder_path, include_summaries, walk, env) ==
    IF ~WalkTriesCache(folder_id, include_summaries)
    THEN [walk |-> walk, failed |-> TRUE]
    ELSE IF LoadPointedBlob.state = "missing"
    THEN [walk |-> walk, failed |-> TRUE]
    ELSE IF LoadPointedBlob.state = "raises"
    THEN [walk |-> Read(walk, folder_id), failed |-> TRUE]
    ELSE IF "items" \notin DOMAIN LoadPointedBlob.value
    THEN [walk |-> Read(walk, folder_id), failed |-> TRUE]
    ELSE IF ~HasUsableSummaries(LoadPointedBlob.value.items)
    THEN [walk |-> Read(walk, folder_id), failed |-> TRUE]
    ELSE CachedLoop(LoadPointedBlob.value.items,
                    IF "folderName" \in DOMAIN LoadPointedBlob.value
                    THEN LoadPointedBlob.value.folderName ELSE "Root",
                    folder_path, include_summaries,
                    [Read(walk, folder_id) EXCEPT !.served = @ \cup {folder_id}], env)

\* app.py:696-697 return what the cache gave, 703 onwards otherwise
ServedOrFetched(folder_id, folder_path, include_summaries, cached, env) ==
    IF ~cached.failed THEN cached.walk
    ELSE FetchFromDrive(folder_id, folder_path, include_summaries, cached.walk, env)

get_all_files_recursive(folder_id, folder_path, include_summaries, walk0, env) ==
    ServedOrFetched(folder_id, folder_path, include_summaries,
                    CachedAttempt(folder_id, folder_path, include_summaries,
                                  [walk0 EXCEPT !.walks =
                                      @ \cup {<<folder_id, include_summaries>>}],
                                  env),
                    env)

\* no function has been called directly
NoCall == [fn |-> "none", n |-> 0]

\* the session, the cache and the reply while no request has been made
NoSession == <<>>
NoBlobs == <<>>
NoResponse == [status |-> 0, body |-> [none |-> TRUE]]
NoProbe ==
    [op |-> "none", n |-> 0, folder |-> NoneVal, flag |-> FALSE, env |-> CalmEnv,
     pointer |-> NoneVal, blob |-> "none", reads |-> {}, served |-> {}, lists |-> {}, walks |-> {},
     items |-> <<>>, reused |-> FALSE]

-----------------------------------------------------------------------------
(* The routes /list-files, /export-csv and /oauth2callback, app.py:539-628,*)
(* 832-963, 965-1010.  A URL is its path and the id parameter of its query.*)

FoldersUrl(id) == [path |-> "/drive/folders/" \o id, id |-> NoneVal]
OpenUrl(id) == [path |-> "/open", id |-> id]
HomeUrl == [path |-> "/drive/my-drive", id |-> NoneVal]
NoUrl == [path |-> NoneVal, id |-> NoneVal]

\* s.split('/')[-1]
AfterLastSlash(s) ==
    LET cuts == {k \in 1..Len(s) : SubSeq(s, k, k) = "/"}
    IN  IF cuts = {} THEN s
        ELSE SubSeq(s, (CHOOSE k \in cuts : \A j \in cuts : j <= k) + 1, Len(s))

\* app.py:277-299; the path of a parsed URL never holds a '?'
get_folder_id_from_url(url) ==
    IF Contains(url.path, "folders") THEN AfterLastSlash(url.path) ELSE url.id

Falsy(v) == v = NoneVal \/ v = ""

\* session[k] = v
SessionSet(sess, k, v) == [x \in DOMAIN sess \cup {k} |-> IF x = k THEN v ELSE sess[x]]

\* str(uuid.uuid4()): an id no earlier result has
ResultId(n) == "r" \o ToString(n)

MaxRequests == 3

ListRequests ==
    {[folder_url |-> NoUrl, folder_id |-> "F1"],
     [folder_url |-> NoUrl, folder_id |-> "F2"],
     [folder_url |-> FoldersUrl("F1"), folder_id |-> NoneVal],
     [folder_url |-> OpenUrl("F2"), folder_id |-> "F2"],
     [folder_url |-> HomeUrl, folder_id |-> NoneVal],
     [folder_url |-> NoUrl, folder_id |-> NoneVal],
     [folder_url |-> NoUrl, folder_id |-> "a"],
     [folder_url |-> NoUrl, folder_id |-> "gone"]}
ExportUrls == {FoldersUrl("F1"), FoldersUrl("F2"), OpenUrl("F1"), HomeUrl, NoUrl}

\* the envs worth telling apart for a request: none when no summary is made
EnvsFor(summaries) == IF summaries /\ SUMMARIZER_AVAILABLE THEN RequestEnvs
                      ELSE {e \in RequestEnvs : e.files = CalmEnv.files}

\* what writing the pickle file can do (app.py:619-621)
DiskOutcomes == {"ok", "open_fails", "dump_fails"}

\* the ghost record of a request that made no walk
Probe(op, folder, flag, env, walk) ==
    [op |-> op, n |-> probe.n + 1, folder |-> folder, flag |-> flag, env |-> env,
     pointer |-> IF HasPointer THEN session["last_folder_id"] ELSE NoneVal,
     blob |-> IF HasPointer THEN LoadPointedBlob.state ELSE "none",
     reads |-> walk.reads, served |-> walk.served, lists |-> walk.lists,
     walks |-> walk.walks, items |-> walk.items, reused |-> FALSE]

\* app.py:549-565: the folder id the request names, or the error reply
RequestedFolder(req) ==
    IF ~Falsy(req.folder_url.path)
    THEN LET extracted_id == get_folder_id_from_url(req.folder_url)
         IN  IF Falsy(extracted_id) THEN [error |-> "Invalid folder URL"]
             ELSE IF ~Falsy(req.folder_id) /\ req.folder_id = extracted_id
             THEN [folder_id |-> req.folder_id]
             ELSE [folder_id |-> extracted_id]
    ELSE IF Falsy(req.folder_id) THEN [error |-> "No folder ID provided"]
    ELSE [folder_id |-> req.folder_id]

\* a reply that asks to authenticate and forgets which folder was asked for
AuthReplyForgetsFolder(req, folder_id) ==
    /\ session' = SessionSet(session, "state", "oauth-state")
    /\ response' = [status |-> 200, body |-> [auth_url |-> "https://accounts.example/o/oauth2"]]
    /\ UNCHANGED <<summarizer, tempDir, uuidCount>>

\* app.py:582-602, the reply that asks the client to authenticate
AuthReply(req, folder_id) ==
    /\ session' = SessionSet(
                    IF ~Falsy(req.folder_url.path)
                    THEN SessionSet(SessionSet(session, "folder_id", folder_id),
                                    "folder_url", req.folder_url.path)
                    ELSE SessionSet(session, "folder_id", folder_id),
                    "state", "oauth-state")
    /\ response' = [status |-> 200, body |-> [auth_url |-> "https://accounts.example/o/oauth2"]]
    /\ UNCHANGED <<summarizer, tempDir, uuidCount>>

\* app.py:610-624, a listing was made: point the session at it, pickle it
StoreAndReply(folder_id, result, handle, disk) ==
    LET result_id == ResultId(uuidCount + 1) IN
    /\ uuidCount' = uuidCount + 1
    /\ session' = SessionSet(SessionSet(session, "last_folder_result_id", result_id),
                             "last_folder_id", folder_id)
    /\ summarizer' = handle
    /\ tempDir' = CASE disk = "ok" ->
                         SessionSet(tempDir, result_id, [kind |-> "pickle", value |-> result])
                    [] disk = "dump_fails" ->
                         SessionSet(tempDir, result_id, [kind |-> "truncated"])
                    [] disk = "open_fails" -> tempDir
    /\ response' = IF disk = "ok" THEN [status |-> 200, body |-> result]
                   ELSE [status |-> 200, body |-> [error |-> "[Errno 28] No space left on device"]]

\* app.py:604-628, what the route does with the listing
ListReply(folder_id, listed) ==
    IF "error" \in DOMAIN listed.value
    THEN /\ response' = [status |-> 200, body |-> [error |-> listed.value.error]]
         /\ summarizer' = listed.handle
         /\ UNCHANGED <<session, tempDir, uuidCount>>
    ELSE \E disk \in DiskOutcomes :
             StoreAndReply(folder_id, listed.value, listed.handle, disk)

\* app.py:549-602, the request named a folder or it did not
ListAsked(req, asked, generate_summaries, env) ==
    /\ probe' = Probe("list", IF "error" \in DOMAIN asked THEN NoneVal ELSE asked.folder_id,
                      generate_summaries, env, NewWalk(summarizer))
    /\ IF "error" \in DOMAIN asked
       THEN /\ response' = [status |-> 200, body |-> asked]
            /\ UNCHANGED <<summarizer, session, tempDir, uuidCount>>
       ELSE IF "token" \notin DOMAIN session
       THEN AuthReply(req, asked.folder_id)
       ELSE ListReply(asked.folder_id,
                      list_files_in_folder(asked.folder_id, generate_summaries,
                                           summarizer, env))

\* /list-files, app.py:539-628
ListFiles ==
    /\ probe.n < MaxRequests
    /\ \E req \in ListRequests, generate_summaries \in BOOLEAN :
       \E env \in EnvsFor(generate_summaries) :
         ListAsked(req, RequestedFolder(req), generate_summaries, env)
    /\ UNCHANGED <<SUMMARIZER_AVAILABLE, rs, call>>

\* a cached entry that never carries the stored summary
ExportCachedEntryDisabled(item, folder_name, include_summaries) ==
    [folder_path |-> folder_name, name |-> item.name, is_folder |-> FALSE,
     webViewLink |-> IF "webViewLink" \in DOMAIN item THEN item.webViewLink ELSE "",
     summary |-> DisabledMsg,
     notes |-> ""]

\* a cached entry that always carries the stored summary
ExportCachedEntryStored(item, folder_name, include_summaries) ==
    [folder_path |-> folder_name, name |-> item.name, is_folder |-> FALSE,
     webViewLink |-> IF "webViewLink" \in DOMAIN item THEN item.webViewLink ELSE "",
     summary |-> SummaryOrEmpty(item),
     notes |-> ""]

\* app.py:882-889, a cached file item as a CSV item
ExportCachedEntry(item, folder_name, include_summaries) ==
    [folder_path |-> folder_name, name |-> item.name, is_folder |-> FALSE,
     webViewLink |-> IF "webViewLink" \in DOMAIN item THEN item.webViewLink ELSE "",
     summary |-> IF include_summaries THEN SummaryOrEmpty(item) ELSE DisabledMsg,
     notes |-> ""]

\* app.py:880-889, the loop over the cached file items: [items, failed]
RECURSIVE ExportCachedFiles(_, _, _, _)
ExportCachedFiles(cached_items, folder_name, include_summaries, items) ==
    IF cached_items = <<>> THEN [items |-> items, failed |-> FALSE]
    ELSE IF TypeOf(Head(cached_items)) # "file"
    THEN ExportCachedFiles(Tail(cached_items), folder_name, include_summaries, items)
    ELSE IF "name" \notin DOMAIN Head(cached_items)
    THEN [items |-> items, failed |-> TRUE]
    ELSE ExportCachedFiles(Tail(cached_items), folder_name, include_summaries,
                           Append(items, ExportCachedEntry(Head(cached_items),
                                                           folder_name,
                                                           include_summaries)))

OnlyFiles(items) == SelectSeq(items, LAMBDA i : ~i.is_folder)

\* app.py:906, all_items.extend of the files the walk of a sub-folder found
Extended(walk, sub) == [sub EXCEPT !.items = walk.items \o OnlyFiles(sub.items)]

\* app.py:898-909, the loop over the cached folder items: [walk, failed]
RECURSIVE ExportCachedFolders(_, _, _, _, _)
ExportCachedFolders(cached_items, folder_name, include_summaries, walk, env) ==
    IF cached_items = <<>> THEN [walk |-> walk, failed |-> FALSE]
    ELSE IF TypeOf(Head(cached_items)) # "folder"
    THEN ExportCachedFolders(Tail(cached_items), folder_name, include_summaries, walk, env)
    ELSE IF {"name", "id"} \ DOMAIN Head(cached_items) # {}
    THEN [walk |-> walk, failed |-> TRUE]
    ELSE ExportCachedFolders(
             Tail(cached_items), folder_name, include_summaries,
             Extended(walk,
                      get_all_files_recursive(
                          Head(cached_items).id,
                          folder_name \o "/" \o Head(cached_items).name,
                          include_summaries, [walk EXCEPT !.items = <<>>], env)),
             env)

\* app.py:863
StoredFolderName(stored) ==
    IF "folderName" \in DOMAIN stored THEN stored.folderName ELSE "Root"

\* app.py:880-909, the stored files, then the walks of the stored folders
ReuseItems(folder_id, include_summaries, stored, files, walk, env) ==
    IF files.failed \/ "token" \notin DOMAIN session
    THEN [walk |-> [walk EXCEPT !.items = files.items, !.served = @ \cup {folder_id}],
          failed |-> TRUE]
    ELSE ExportCachedFolders(stored.items, StoredFolderName(stored), include_summaries,
                             [walk EXCEPT !.items = files.items,
                                          !.served = @ \cup {folder_id}],
                             env)

\* app.py:853-915, the attempt to reuse the stored listing: [walk, failed]
ReuseStored(folder_id, include_summaries, walk, env) ==
    IF ~(HasPointer /\ session["last_folder_id"] = folder_id)
    THEN [walk |-> walk, failed |-> TRUE]
    ELSE IF LoadPointedBlob.state = "missing"
    THEN [walk |-> walk, failed |-> TRUE]
    ELSE IF LoadPointedBlob.state = "raises"
    THEN [walk |-> Read(walk, folder_id), failed |-> TRUE]
    ELSE IF "items" \notin DOMAIN LoadPointedBlob.value
    THEN [walk |-> Read(walk, folder_id), failed |-> TRUE]
    ELSE IF include_summaries /\ ~HasUsableSummaries(LoadPointedBlob.value.items)
    THEN [walk |-> Read(walk, folder_id), failed |-> TRUE]
    ELSE ReuseItems(folder_id, include_summaries, LoadPointedBlob.value,
                    ExportCachedFiles(LoadPointedBlob.value.items,
                                      StoredFolderName(LoadPointedBlob.value),
                                      include_summaries, <<>>),
                    Read(walk, folder_id), env)

\* item.get(k, '')
GetOrEmpty(item, k) == IF k \in DOMAIN item THEN item[k] ELSE ""

\* app.py:934-946: the data rows; enumerate counts every item, a row is
\* written for the files
CsvHeader == <<"Number", "Folder Name", "File Name", "File URL", "Summary", "Notes">>
CsvRows(items) ==
    LET numbered == [k \in 1..Len(items) |->
                        [number |-> k, folder_name |-> items[k].folder_path,
                         file_name |-> items[k].name,
                         file_url |-> GetOrEmpty(items[k], "webViewLink"),
                         summary |-> GetOrEmpty(items[k], "summary"),
                         notes |-> GetOrEmpty(items[k], "notes"),
                         is_folder |-> items[k].is_folder]]
        kept == SelectSeq(numbered, LAMBDA r : ~r.is_folder)
    IN  [k \in 1..Len(kept) |->
            [number |-> kept[k].number, folder_name |-> kept[k].folder_name,
             file_name |-> kept[k].file_name, file_url |-> kept[k].file_url,
             summary |-> kept[k].summary, notes |-> kept[k].notes]]

\* app.py:928-957, the CSV of the items gathered
CsvReply(folder_id, include_summaries, env, final, reused) ==
    /\ response' = [status |-> 200,
                    body |-> [header |-> CsvHeader, rows |-> CsvRows(final.items)]]
    /\ probe' = [Probe("export", folder_id, include_summaries, env, final)
                 EXCEPT !.reused = reused]
    /\ summarizer' = final.handle

\* an export that answers a failed reuse with an error
ExportItemsNoFallback(folder_id, include_summaries, env, tried) ==
    IF ~tried.failed
    THEN CsvReply(folder_id, include_summaries, env, tried.walk, TRUE)
    ELSE /\ response' = [status |-> 500, body |-> [error |-> "cache unavailable"]]
         /\ probe' = [Probe("export", folder_id, include_summaries, env, tried.walk)
                      EXCEPT !.items = <<>>]
         /\ summarizer' = tried.walk.handle

\* app.py:917-926, 959-963: the stored listing was reused, or the folder is
\* walked from "Root" after a new authenticate(); items is assigned anew,
\* the rest of the walk stays
ExportItems(folder_id, include_summaries, env, tried) ==
    IF ~tried.failed
    THEN CsvReply(folder_id, include_summaries, env, tried.walk, TRUE)
    ELSE IF "token" \notin DOMAIN session
    THEN /\ response' = [status |-> 500, body |-> [error |-> "authentication_required"]]
         /\ probe' = [Probe("export", folder_id, include_summaries, env, tried.walk)
                      EXCEPT !.items = <<>>]
         /\ summarizer' = tried.walk.handle
    ELSE CsvReply(folder_id, include_summaries, env,
                  get_all_files_recursive(folder_id, "Root", include_summaries,
                                          [tried.walk EXCEPT !.items = <<>>], env),
                  FALSE)

\* app.py:836-851
ExportAsked(folder_url, folder_id, include_summaries, env) ==
    IF Falsy(folder_url.path)
    THEN /\ response' = [status |-> 400, body |-> [error |-> "No folder URL provided"]]
         /\ probe' = Probe("export", NoneVal, include_summaries, env, NewWalk(summarizer))
         /\ UNCHANGED summarizer
    ELSE IF Falsy(folder_id)
    THEN /\ response' = [status |-> 400, body |-> [error |-> "Invalid folder URL"]]
         /\ probe' = Probe("export", NoneVal, include_summaries, env, NewWalk(summarizer))
         /\ UNCHANGED summarizer
    ELSE ExportItems(folder_id, include_summaries, env,
                     ReuseStored(folder_id, include_summaries, NewWalk(summarizer), env))

\* /export-csv, app.py:832-963
ExportCsv ==
    /\ probe.n < MaxRequests
    /\ \E folder_url \in ExportUrls, include_summaries \in BOOLEAN :
       \E env \in EnvsFor(include_summaries) :
         ExportAsked(folder_url, get_folder_id_from_url(folder_url), include_summaries, env)
    /\ UNCHANGED <<SUMMARIZER_AVAILABLE, rs, session, tempDir, uuidCount, call>>

\* /oauth2callback, app.py:965-1010: the token exchange succeeded
OAuthCallback ==
    /\ "state" \in DOMAIN session
    /\ "token" \notin DOMAIN session
    /\ session' = SessionSet(session, "token", "token-json")
    /\ response' = [status |-> 200, body |-> [html |-> "Authentication complete."]]
    /\ UNCHANGED <<SUMMARIZER_AVAILABLE, summarizer, rs, tempDir, uuidCount, probe, call>>

\* the temp directory is the system's: a cleaner may remove a stored file
TempFileRemoved ==
    /\ \E result_id \in DOMAIN tempDir :
         tempDir' = [x \in DOMAIN tempDir \ {result_id} |-> tempDir[x]]
    /\ UNCHANGED <<SUMMARIZER_AVAILABLE, summarizer, rs, session, uuidCount, response,
                   probe, call>>

Init ==
    /\ SUMMARIZER_AVAILABLE \in BOOLEAN
    /\ summarizer = NoneVal
    /\ rs = [pc |-> "idle"]
    /\ session = NoSession
    /\ tempDir = NoBlobs
    /\ uuidCount = 0
    /\ response = NoResponse
    /\ probe = NoProbe
    /\ call = NoCall

Next ==
    \/ ListFiles
    \/ ExportCsv
    \/ OAuthCallback
    \/ TempFileRemoved

Spec == Init /\ [][Next]_vars

-----------------------------------------------------------------------------
(* The result cache and the summaries of a session, checked under Spec.    *)

\* the request the state follows, and what it replied
Exported == probe.op = "export" /\ "rows" \in DOMAIN response.body
Listed == probe.op = "list" /\ "items" \in DOMAIN response.body
\* the export named the folder of the pointer and found its listing stored
NamedThePointer == probe.op = "export" /\ probe.pointer # NoneVal /\ probe.folder = probe.pointer
FoundStored == NamedThePointer /\ HasPointer /\ LoadPointedBlob.state = "loaded"
StoredFiles == SelectSeq(LoadPointedBlob.value.items, LAMBDA i : i.type = "file")
\* the rows of the root level of the export: the stored folder's own files
RootRows == SelectSeq(response.body.rows,
                      LAMBDA r : r.folder_name = LoadPointedBlob.value.folderName)
AnExportStep == probe'.op = "export" /\ probe'.n # probe.n

\* the rows of the root level are the stored files, one for one, with the
\* stored name and link and the summary Served gives for the stored item
RootRowsAre(Served(_)) ==
    /\ Len(RootRows) = Len(StoredFiles)
    /\ \A k \in 1..Len(StoredFiles) :
         /\ RootRows[k].file_name = StoredFiles[k].name
         /\ RootRows[k].file_url = StoredFiles[k].webViewLink
         /\ RootRows[k].summary = Served(StoredFiles[k])

StoredSummary(item) == item.summary
StoredSummaryIfAsked(item) == IF probe.flag THEN item.summary ELSE DisabledMsg

\* C4 as stated: an export that hits the cache serves, for every root-level
\* file of the stored result, the stored name, link and summary, and the
\* export leaves the stored result and the pointer as they were.
C4_RoundTrip_AsStated ==
    [][AnExportStep =>
         /\ tempDir' = tempDir /\ session' = session
         /\ (FoundStored /\ Exported /\ probe.reused => RootRowsAre(StoredSummary))']_vars

\* C4 amended: an export that hits the cache serves, for every root-level
\* file of the stored result, the stored name and link, and the stored
\* summary when include_summaries is true, 'Summary generation disabled'
\* when it is false; the export leaves the stored result and the pointer as
\* they were.
C4_RoundTrip ==
    [][AnExportStep =>
         /\ tempDir' = tempDir /\ session' = session
         /\ (FoundStored /\ Exported /\ probe.reused
                => RootRowsAre(StoredSummaryIfAsked))']_vars

C4_Witness ==
    /\ FoundStored /\ Exported /\ probe.reused /\ probe.flag
    /\ Len(StoredFiles) > 0
    /\ StoredFiles[1].summary = "s1"
    /\ RootRows[1].summary = "s1"

\* C5: an export or a walk that presents a folder id other than the one the
\* pointer records reads no blob and serves nothing stored: it lists the
\* folder on Drive.
C5_NoCrossFolder ==
    probe.op = "export" =>
        /\ probe.reads \subseteq {probe.pointer}
        /\ probe.served \subseteq {probe.pointer}
        /\ \A w \in probe.walks : w[1] # probe.pointer => w[1] \in probe.lists
        /\ (Exported /\ probe.folder # probe.pointer)
              => (~probe.reused /\ probe.folder \in probe.lists)

C5_Witness ==
    /\ Exported /\ probe.pointer = "F1" /\ probe.blob = "loaded" /\ probe.flag
    /\ probe.reused
    /\ <<"F2", TRUE>> \in probe.walks
    /\ probe.reads = {"F1"}
    /\ "F2" \in probe.lists

\* no file item of the stored listing has a summary that is non-empty, is
\* not 'Summary generation disabled' and does not start with 'Error
\* generating summary'
NoStoredFileUsable ==
    \A k \in 1..Len(StoredFiles) :
        \/ StoredFiles[k].summary = ""
        \/ StoredFiles[k].summary = "Summary generation disabled"
        \/ StartsWith(StoredFiles[k].summary, "Error generating summary")

\* C6: an export that asks for summaries and finds a stored listing none of
\* whose file items has a usable summary uses none of its items: the folder
\* is walked on Drive with summaries.
C6_NoUsableSummaryIsMiss ==
    (FoundStored /\ probe.flag /\ NoStoredFileUsable)
        => /\ Exported
           /\ ~probe.reused
           /\ probe.served = {}
           /\ <<probe.folder, TRUE>> \in probe.walks
           /\ probe.folder \in probe.lists
           /\ \A k \in 1..Len(probe.items) : "id" \in DOMAIN probe.items[k]
                                              \/ probe.items[k].is_folder

C6_Witness ==
    /\ FoundStored /\ probe.flag /\ NoStoredFileUsable
    /\ Len(StoredFiles) > 0
    /\ SUMMARIZER_AVAILABLE
    /\ Exported /\ Len(response.body.rows) > 0
    /\ response.body.rows[1].summary = "s1"

\* C7: an export that names the pointer's folder while the blob is missing
\* or does not unpickle falls through to a walk of Drive and replies with
\* the CSV, status 200.
C7_BadBlobIsMiss ==
    (NamedThePointer /\ probe.blob \in {"missing", "raises"})
        => /\ Exported /\ response.status = 200
           /\ ~probe.reused
           /\ probe.served = {}
           /\ <<probe.folder, probe.flag>> \in probe.walks
           /\ probe.folder \in probe.lists

C7_Witness ==
    /\ NamedThePointer /\ probe.blob = "raises" /\ probe.flag
    /\ probe.reads = {probe.folder}
    /\ Exported /\ response.status = 200 /\ Len(response.body.rows) > 0

\* C8: when summaries are not requested every file item of the listing and
\* every file row of the export carries 'Summary generation disabled'.
C8_DisabledWhenNotRequested ==
    /\ (Listed /\ ~probe.flag) =>
          \A k \in 1..Len(response.body.items) :
              response.body.items[k].type = "file"
                 => response.body.items[k].summary = DisabledMsg
    /\ (Exported /\ ~probe.flag) =>
          /\ \A k \in 1..Len(response.body.rows) :
                response.body.rows[k].summary = DisabledMsg
          /\ \A k \in 1..Len(probe.items) :
                ~probe.items[k].is_folder => probe.items[k].summary = DisabledMsg

C8_Witness ==
    /\ FoundStored /\ Exported /\ ~probe.flag /\ probe.reused
    /\ Len(StoredFiles) > 0
    /\ StoredFiles[1].summary = "s1"
    /\ Len(response.body.rows) = 3
    /\ response.body.rows[1].summary = DisabledMsg

\* C9 as stated: in every result of list_files_in_folder and of
\* get_all_files_recursive each file item carries one summary and each
\* folder item none, whatever the flag and the availability of the model.
C9_OneSummaryPerFile ==
    /\ Listed =>
          \A k \in 1..Len(response.body.items) :
              (response.body.items[k].type = "file")
                 = ("summary" \in DOMAIN response.body.items[k])
    /\ probe.op = "export" =>
          \A k \in 1..Len(probe.items) :
              (~probe.items[k].is_folder) = ("summary" \in DOMAIN probe.items[k])

\* C10 as stated: with SUMMARIZER_AVAILABLE false and summaries requested a
\* file with text is given 'Summary not available (model not installed)',
\* through list_files_in_folder and through get_all_files_recursive alike.
C10_NotInstalledText ==
    ~SUMMARIZER_AVAILABLE =>
       /\ (Listed /\ probe.flag) =>
             \A k \in 1..Len(response.body.items) :
                 response.body.items[k].type = "file"
                    => response.body.items[k].summary = NotInstalledMsg
       /\ (Exported /\ probe.flag /\ ~probe.reused) =>
             \A k \in 1..Len(probe.items) :
                 ~probe.items[k].is_folder
                    => /\ "summary" \in DOMAIN probe.items[k]
                       /\ probe.items[k].summary = NotInstalledMsg

-----------------------------------------------------------------------------
(* The summarizer on its own: one call of recursive_summarize on each of   *)
(* the bounded inputs, against every behaviour of the model.               *)

SmallMaxLength == 2
MaxDepthBound == 2
MaxStartDepth == 1

\* n distinct words separated by single spaces
WordsText(n) == Join([k \in 1..n |-> "w" \o ToString(k)])

InputWordCounts ==
    {0, SmallMaxLength + 1, DefaultMaxLength, DefaultMaxLength + 1, 2 * chunk_size + 1}
InputTexts == {WordsText(n) : n \in InputWordCounts} \cup {"  w1 \t w2\n"}
MaxLengths == {SmallMaxLength, DefaultMaxLength}

InitSummarize ==
    /\ SUMMARIZER_AVAILABLE = TRUE
    /\ summarizer \in {NoneVal, "pipeline"}
    /\ rs \in {Activation(t, ml, d, md,
                          [NoRun EXCEPT !.depth0 = d, !.words0 = Len(Split(t))]) :
                 t \in InputTexts, ml \in MaxLengths,
                 d \in 0..MaxStartDepth, md \in 0..MaxDepthBound}
    /\ session = NoSession
    /\ tempDir = NoBlobs
    /\ uuidCount = 0
    /\ response = NoResponse
    /\ probe = NoProbe
    /\ call = NoCall

NextSummarize ==
    \/ RS_BaseCase
    \/ RS_SplitChunks
    \/ RS_SummarizeChunk
    \/ RS_AfterLoop

SpecSummarize == InitSummarize /\ [][NextSummarize]_vars

\* C1: a call made with depth 0 never recurses deeper than max_depth, runs at
\* most max_depth + 1 rounds of model invocation, stays at depth 0 with no
\* chunking when the input has at most max_length words, and returns.
C1_DepthAndRounds ==
    rs.depth0 = 0 =>
        /\ rs.depth <= rs.max_depth
        /\ rs.rounds <= rs.max_depth + 1
        /\ rs.words0 <= rs.max_length =>
               (rs.depth = 0 /\ rs.pc \in {"call", "done"} /\ rs.chunks = <<>>
                /\ rs.calls <= 1)
\* the work left in a call, ordered lexicographically: depth levels still
\* allowed, then the stage within the level, then the chunks still to do
LevelsLeft(r) == IF r.max_depth > r.depth THEN r.max_depth - r.depth ELSE 0
Stage(r) == CASE r.pc = "call" -> 2 [] r.pc = "loop" -> 1 [] OTHER -> 0
ChunksLeft(r) == IF r.pc = "loop" THEN Len(r.chunks) + 1 - r.i ELSE 0
WorkShrinks(r, q) ==
    \/ q.pc = "done" /\ r.pc # "done"
    \/ q.pc # "done" /\ LevelsLeft(q) < LevelsLeft(r)
    \/ q.pc # "done" /\ LevelsLeft(q) = LevelsLeft(r) /\ Stage(q) < Stage(r)
    \/ q.pc # "done" /\ LevelsLeft(q) = LevelsLeft(r) /\ Stage(q) = Stage(r)
       /\ ChunksLeft(q) < ChunksLeft(r)
\* a call that has not returned has a next statement to run
Running(r) ==
    r.pc # "done" =>
        /\ AtBaseCase(r) \/ AtSplitChunks(r) \/ AtChunk(r) \/ AtAfterLoop(r)
        /\ ChunksLeft(r) >= 0
C1_Terminates ==
    [][/\ C1_DepthAndRounds /\ Running(rs)
       /\ C1_DepthAndRounds' /\ Running(rs)'
       /\ WorkShrinks(rs, rs')]_vars
C1_Witness ==
    /\ rs.pc = "done" /\ rs.depth0 = 0 /\ rs.max_depth = MaxDepthBound
    /\ rs.depth = rs.max_depth /\ rs.rounds = rs.max_depth + 1
    /\ Len(rs.words) > rs.max_length

\* C2: recursive_summarize never raises and returns a string; in the base
\* case a failing model call returns 'Could not summarize: ' plus the first
\* 50 characters of the message and an empty answer returns 'Could not
\* generate summary'.
C2_NeverRaises ==
    /\ rs.pc # "raised"
    /\ rs.pc = "done" =>
        /\ rs.result # NoneVal
        /\ rs.via = "base" =>
            /\ rs.lastAnswer.kind = "raise" =>
                   /\ rs.result = "Could not summarize: "
                                  \o SubSeq(rs.lastAnswer.text, 1,
                                            Min(50, Len(rs.lastAnswer.text)))
                   /\ Len(rs.result) <= 21 + 50
            /\ rs.lastAnswer.kind = "empty" => rs.result = "Could not generate summary"
            /\ rs.lastAnswer.kind = "ok" => rs.result = rs.lastAnswer.text
C2_Witness ==
    /\ rs.pc = "done" /\ rs.via = "base" /\ rs.lastAnswer.kind = "raise"
    /\ Len(rs.lastAnswer.text) > 50 /\ rs.depth > 0

\* C3: when the input is over budget below max_depth and no chunk call
\* yields a summary, the call returns 'Could not generate summary for any
\* chunk' at once: no recursive call and no further model call.
C3_NoChunkSummarized ==
    [][(rs.pc = "loop" /\ rs.i > Len(rs.chunks) /\ rs.roundOk = 0) =>
         /\ rs'.pc = "done"
         /\ rs'.result = "Could not generate summary for any chunk"
         /\ rs'.depth = rs.depth /\ rs'.calls = rs.calls /\ rs'.rounds = rs.rounds
         /\ ~(ENABLED NextSummarize)']_vars
C3_Witness ==
    /\ rs.pc = "done" /\ rs.via = "nochunk" /\ Len(rs.chunks) = 3
    /\ rs.calls = 3 /\ rs.lastAnswer.kind = "empty" /\ summarizer # NoneVal

\* the words of a text, and a text of words with single spaces between them
WordsOf(text) == Split(text)
SingleSpaced(text) == text = Join(Split(text))
FirstWords(words, n) == SubSeq(words, 1, IF Len(words) < n THEN Len(words) ELSE n)
InBaseCase ==
    rs.pc = "call" /\ (Len(WordsOf(rs.text)) <= rs.max_length \/ rs.depth >= rs.max_depth)

\* C18: in the base case (word count <= max_length, or depth >= max_depth) the
\* model is invoked exactly once, on the first max_length words of the input
\* joined by single spaces (the whole input when it is within budget), with output
\* bounds min 10 and max 25, and the call returns.
C18_BaseCaseOneCall ==
    [][InBaseCase =>
         /\ rs'.calls = rs.calls + 1
         /\ rs'.pc = "done"
         /\ WordsOf(rs'.lastArg) = FirstWords(WordsOf(rs.text), rs.max_length)
         /\ SingleSpaced(rs'.lastArg)
         /\ rs'.lastBounds = [min_length |-> 10, max_length |-> 25]]_vars

\* a base case forced by the depth: three words cut to the budget of two
C18_Witness ==
    /\ rs.pc = "done" /\ rs.via = "base" /\ rs.calls = 1
    /\ rs.depth >= rs.max_depth
    /\ Len(WordsOf(rs.text)) = 3 /\ rs.max_length = 2
    /\ rs.lastArg = "w1 w2"

\* where a call in the recursive case stands
InRecursiveCase == rs.pc = "call" /\ ~InBaseCase
InChunkLoop == rs.pc = "loop" /\ rs.i <= Len(rs.chunks)
LoopOver == rs.pc = "loop" /\ rs.i > Len(rs.chunks)
\* the words are cut into 800-word chunks, in order, the last one shorter
ChunksOf800(chunks, words) ==
    /\ Len(chunks) = (Len(words) + 799) \div 800
    /\ \A k \in 1..Len(chunks) :
          WordsOf(chunks[k])
             = SubSeq(words, 800 * (k - 1) + 1,
                      IF 800 * k < Len(words) THEN 800 * k ELSE Len(words))
\* one call on the chunk at hand; its summary is kept when the call gives one, and
\* the loop goes to the next chunk either way
OneCallPerChunk ==
    /\ rs'.calls = rs.calls + 1
    /\ rs'.lastArg = rs.chunks[rs.i]
    /\ rs'.pc = "loop" /\ rs'.i = rs.i + 1 /\ rs'.chunks = rs.chunks
    /\ rs'.depth = rs.depth
    /\ rs'.chunk_summaries = IF rs'.lastAnswer.kind = "ok"
                             THEN Append(rs.chunk_summaries, rs'.lastAnswer.text)
                             ELSE rs.chunk_summaries
\* the recursive call: one level deeper, same budget and depth limit, on the
\* summaries joined by single spaces in chunk order, no model call in between
RecursesOnce ==
    /\ rs'.pc = "call"
    /\ rs'.depth = rs.depth + 1
    /\ rs'.max_length = rs.max_length /\ rs'.max_depth = rs.max_depth
    /\ rs'.text = Join(rs.chunk_summaries)
    /\ rs'.calls = rs.calls
GivesUp ==
    /\ rs'.pc = "done"
    /\ rs'.result = "Could not generate summary for any chunk"
    /\ rs'.depth = rs.depth /\ rs'.calls = rs.calls

\* C19 as stated: in the recursive case the words are cut into contiguous chunks
\* of 800 in order, the model is called once per chunk, a chunk whose call raises
\* or returns nothing is skipped, and the function then recurses once with depth+1
\* and the same max_length and max_depth on the surviving summaries joined by
\* single spaces.
C19_AsStated ==
    [][/\ InRecursiveCase =>
             (rs'.pc = "loop" /\ rs'.calls = rs.calls
                /\ ChunksOf800(rs'.chunks, WordsOf(rs.text)))
       /\ InChunkLoop => OneCallPerChunk
       /\ LoopOver => RecursesOnce]_vars

\* C19 amended: as stated, but the function recurses only when at least one chunk
\* summary survives; with none it returns 'Could not generate summary for any
\* chunk' without recursing.
C19_ChunksThenRecurse ==
    [][/\ InRecursiveCase =>
             (rs'.pc = "loop" /\ rs'.calls = rs.calls
                /\ ChunksOf800(rs'.chunks, WordsOf(rs.text)))
       /\ InChunkLoop => OneCallPerChunk
       /\ (LoopOver /\ rs.chunk_summaries # <<>>) => RecursesOnce
       /\ (LoopOver /\ rs.chunk_summaries = <<>>) => GivesUp]_vars

\* the recursive call after three chunks of which one was skipped
C19_Witness ==
    /\ rs.pc = "call" /\ rs.depth = rs.depth0 + 1
    /\ Len(rs.chunks) = 0 /\ rs.calls = 3 /\ rs.words0 = 1601
    /\ rs.text = "s1 s1 s2 s3"
    /\ rs.lastAnswer.kind \in {"raise", "empty"}

-----------------------------------------------------------------------------
(* detect_filetype, file_type.py:8-42 *)

TEXT_EXTS == {".txt", ".md", ".csv", ".json", ".xml", ".html", ".htm", ".log"}
IMAGE_EXTS == {".jpg", ".jpeg", ".png", ".gif", ".tiff", ".bmp"}
ScanExts == {".jpg", ".jpeg", ".tiff"}

\* Path(filename).suffix: from the last dot of the final component, unless
\* that dot is its first or its last character
PathSuffix(filename) ==
    LET name == AfterLastSlash(filename)
        dots == {k \in 1..Len(name) : SubSeq(name, k, k) = "."}
        last == CHOOSE k \in dots : \A j \in dots : j <= k
    IN  IF dots = {} THEN ""
        ELSE IF last = 1 \/ last = Len(name) THEN ""
        ELSE SubSeq(name, last, Len(name))

\* file_type.py:32, 40
ImageKind(ext) == IF ext \in ScanExts THEN "SCANNED_DOC" ELSE "PHOTO"

\* file_type.py:35-42
ByExtension(ext) ==
    IF ext = ".pdf" THEN "PDF"
    ELSE IF ext \in TEXT_EXTS THEN "TEXT"
    ELSE IF ext \in IMAGE_EXTS THEN ImageKind(ext)
    ELSE "OTHER"

\* file_type.py:20-42, ext = path.suffix.lower()
\* a classifier that never looks at the MIME type
DetectByExtensionOnly(ext, mime_type) == ByExtension(ext)

DetectWith(ext, mime_type) ==
    IF Falsy(mime_type) THEN ByExtension(ext)
    ELSE IF Contains(Lower(mime_type), "pdf") THEN "PDF"
    ELSE IF Contains(Lower(mime_type), "text") /\ ext \in TEXT_EXTS THEN "TEXT"
    ELSE IF Contains(Lower(mime_type), "image") THEN ImageKind(ext)
    ELSE ByExtension(ext)

detect_filetype(filename, mime_type) == DetectWith(Lower(PathSuffix(filename)), mime_type)

-----------------------------------------------------------------------------
(* What one call of generate_file_summary does with the model: whether it  *)
(* constructs the pipeline, which path summarizes, and the texts handed to *)
(* the model in call order (app.py:81, 108, 204-229).                      *)

RECURSIVE RecursiveModelInputs(_, _, _, _, _, _)
RecursiveModelInputs(text, max_length, depth, max_depth, handle, outcome) ==
    IF IsBaseCase(Split(text), max_length, depth, max_depth)
    THEN <<BaseInput(Split(text), max_length)>>
    ELSE IF ChunkSummaries(MakeChunks(Split(text)), Invoke(handle, outcome)) = <<>>
    THEN MakeChunks(Split(text))
    ELSE MakeChunks(Split(text))
         \o RecursiveModelInputs(
                Join(ChunkSummaries(MakeChunks(Split(text)), Invoke(handle, outcome))),
                max_length, depth + 1, max_depth, handle, outcome)

\* app.py:215-229
ModelTrace(cleaned_content, handle, env, initialized) ==
    IF UsesRecursive(Len(Split(cleaned_content)))
    THEN [route |-> "recursive_summarize", initialized |-> initialized,
          inputs |-> RecursiveModelInputs(cleaned_content, DefaultMaxLength, 0,
                                          DefaultMaxDepth, handle, env.model)]
    ELSE [route |-> "summarizer", initialized |-> initialized,
          inputs |-> <<cleaned_content>>]

NoModelTrace == [route |-> "none", initialized |-> FALSE, inputs |-> <<>>]

\* app.py:172-241
FileSummaryTrace(file_content, file_name, file_type, handle, env) ==
    IF file_content = NoneVal \/ Len(file_content) = 0 THEN NoModelTrace
    ELSE IF UsesMetadataSummary(file_name, file_type) THEN NoModelTrace
    ELSE IF ~SUMMARIZER_AVAILABLE THEN NoModelTrace
    ELSE IF handle # NoneVal
    THEN ModelTrace(Join(Split(file_content)), handle, env, FALSE)
    ELSE IF ~initialize_summarizer(handle, env).ok
    THEN [NoModelTrace EXCEPT !.initialized = TRUE]
    ELSE ModelTrace(Join(Split(file_content)), initialize_summarizer(handle, env).handle,
                    env, TRUE)

-----------------------------------------------------------------------------
(* The functions called on their own: the arguments of one call of         *)
(* generate_file_summary, generate_metadata_summary or detect_filetype are *)
(* drawn from bounded sets, and the call is then made.                     *)

CallContents ==
    {NoneVal, "", "   ", "hello  world\tfrom a",
     WordsText(max_direct_words), WordsText(max_direct_words + 1)}
SheetMime == "application/vnd.openxmlformats-officedocument.spreadsheetml.sheet"
DocMime == "application/vnd.google-apps.document"
CallFiles ==
    {[name |-> "photo.jpg", type |-> "image/jpeg"],
     [name |-> "photo.jpg", type |-> "text/plain"],
     [name |-> "clip.mp4", type |-> NoneVal],
     [name |-> "scan.pdf", type |-> "application/pdf"],
     [name |-> "scan.pdf", type |-> NoneVal],
     [name |-> "notes.txt", type |-> "text/plain"],
     [name |-> "notes.txt", type |-> NoneVal],
     [name |-> "notes.txt", type |-> "application/json"],
     [name |-> "report", type |-> DocMime],
     [name |-> "budget.xlsx", type |-> SheetMime],
     [name |-> "data.bin", type |-> "application/octet-stream"],
     [name |-> "README", type |-> ""]}
CallSizes == {NoSize, 2048}
CallEnvs ==
    {[meta |-> "ok", data |-> "text", init |-> i, model |-> m] :
        i \in BOOLEAN, m \in {o \in ModelOutcomes : o.kind = "ok" => o.text = "s1"}}

MetaNames == {"photo.JPG", "archive.tar.gz", "README", "nosize.txt", "odd."}
MetaTypes ==
    {"image/jpeg", "video/mp4", "audio/mpeg", "application/pdf", "text/plain",
     "application/octet-stream", "image", "application/x-image/png"}
    \cup ExcelTypes \cup PowerPointTypes \cup ZipTypes
MetaSizes ==
    {NoSize, 0, 1, 1023, Kilo, 1075, 1536, Kilo * Kilo - 1, Kilo * Kilo,
     Kilo * Kilo + Kilo * 512, 5 * Kilo * Kilo}
Dates == {NoneVal, "2024-01-01T00:00:00.000Z"}

TypeNames ==
    {"doc.pdf", "Doc.PDF", "notes.txt", "data.csv", "page.HTML", "scan.jpg", "old.jpeg",
     "photo.png", "doc.tiff", "anim.gif", "archive.tar.gz", "README", ".txt",
     "notes.txt.", "dir.pdf/file", "clip.mp4"}
TypeMimes ==
    {"", NoneVal, "application/pdf", "Application/PDF", "text/csv", "text/plain",
     "image/tiff", "image/png", "IMAGE/JPEG", "application/octet-stream", "text/x-pdf",
     "image/x-text", "video/mp4"}

FileSummaryInputs ==
    {[fn |-> "generate_file_summary", n |-> 0, file_content |-> c, file_name |-> f.name,
      file_type |-> f.type, file_size |-> z, env |-> e] :
        c \in CallContents, f \in CallFiles, z \in CallSizes, e \in CallEnvs}
MetadataInputs ==
    {[fn |-> "generate_metadata_summary", n |-> 0, file_name |-> f, file_type |-> t,
      file_size |-> z, created_date |-> cd, modified_date |-> md] :
        f \in MetaNames, t \in MetaTypes, z \in MetaSizes, cd \in Dates, md \in Dates}
DetectInputs ==
    {[fn |-> "detect_filetype", n |-> 0, filename |-> f, mime_type |-> m] :
        f \in TypeNames, m \in TypeMimes}

\* the orders in which files().list may return the items of one folder
FolderArchive == [id |-> "F9", name |-> "archive", mimeType |-> FolderMime,
                  webViewLink |-> "https://drive.example/F9"]
OrderedItems == {FileA, FolderSub, FileB, FolderArchive}
DriveOrders ==
    {o \in [1..Cardinality(OrderedItems) -> OrderedItems] :
        \A i, j \in DOMAIN o : i # j => o[i] # o[j]}
ListingInputs ==
    {[fn |-> "list_files_in_folder", n |-> 0, items |-> o, generate_summaries |-> g] :
        o \in DriveOrders, g \in BOOLEAN}

\* the record of a call of generate_file_summary and the global it leaves
FileSummaryCalled(file_content, file_name, file_type, file_size, env, got, trace) ==
    /\ call' = [fn |-> "generate_file_summary", n |-> call.n + 1,
                file_content |-> file_content, file_name |-> file_name,
                file_type |-> file_type, file_size |-> file_size, env |-> env,
                handle |-> summarizer, result |-> got.summary,
                route |-> trace.route, initialized |-> trace.initialized,
                inputs |-> trace.inputs]
    /\ summarizer' = got.handle

CallGenerateFileSummary ==
    /\ call.fn = "generate_file_summary"
    /\ call.n = 0
    /\ FileSummaryCalled(call.file_content, call.file_name, call.file_type, call.file_size,
                         call.env,
                         generate_file_summary(call.file_content, call.file_name,
                                               call.file_type, call.file_size, summarizer,
                                               call.env),
                         FileSummaryTrace(call.file_content, call.file_name, call.file_type,
                                          summarizer, call.env))
    /\ UNCHANGED <<SUMMARIZER_AVAILABLE, rs, session, tempDir, uuidCount, response, probe>>

\* created_date and modified_date are accepted and never read (app.py:131-170)
CallGenerateMetadataSummary ==
    /\ call.fn = "generate_metadata_summary"
    /\ call.n = 0
    /\ call' = [call EXCEPT !.n = 1] @@
               ("result" :> generate_metadata_summary(call.file_name, call.file_type,
                                                     call.file_size))
    /\ UNCHANGED <<SUMMARIZER_AVAILABLE, summarizer, rs, session, tempDir, uuidCount,
                   response, probe>>

CallDetectFiletype ==
    /\ call.fn = "detect_filetype"
    /\ call.n = 0
    /\ call' = [call EXCEPT !.n = 1] @@
               ("result" :> detect_filetype(call.filename, call.mime_type))
    /\ UNCHANGED <<SUMMARIZER_AVAILABLE, summarizer, rs, session, tempDir, uuidCount,
                   response, probe>>

\* the record of a listing and the global it leaves
ListingCalled(listed) ==
    /\ call' = [call EXCEPT !.n = 1] @@ ("result" :> listed.value.items)
    /\ summarizer' = listed.handle

\* app.py:405-506: the loop over the items Drive returned, and the sort
CallListItems ==
    /\ call.fn = "list_files_in_folder"
    /\ call.n = 0
    /\ ListingCalled(Listing("F1", call.generate_summaries,
                             ProcessItems(call.items, call.generate_summaries, CalmEnv,
                                          [items |-> <<>>, handle |-> summarizer])))
    /\ UNCHANGED <<SUMMARIZER_AVAILABLE, rs, session, tempDir, uuidCount, response, probe>>

InitCalls ==
    /\ SUMMARIZER_AVAILABLE \in BOOLEAN
    /\ summarizer \in IF SUMMARIZER_AVAILABLE THEN {NoneVal, "pipeline"} ELSE {NoneVal}
    /\ rs = [pc |-> "idle"]
    /\ session = NoSession
    /\ tempDir = NoBlobs
    /\ uuidCount = 0
    /\ response = NoResponse
    /\ probe = NoProbe
    /\ call \in FileSummaryInputs \cup MetadataInputs \cup DetectInputs \cup ListingInputs

NextCalls ==
    \/ CallGenerateFileSummary
    \/ CallGenerateMetadataSummary
    \/ CallDetectFiletype
    \/ CallListItems

SpecCalls == InitCalls /\ [][NextCalls]_vars

-----------------------------------------------------------------------------
(* Claims about the functions called on their own.                         *)

FileSummaryCall == call.fn = "generate_file_summary" /\ call.n > 0
MetadataCall == call.fn = "generate_metadata_summary" /\ call.n > 0
DetectCall == call.fn = "detect_filetype" /\ call.n > 0

\* media and binary extensions other than pdf, as the claim lists them
NonPdfBinaryExts ==
    {"jpg", "jpeg", "png", "gif", "bmp", "tiff", "mp4", "avi", "mov", "wmv", "mp3", "wav",
     "ogg", "zip", "exe", "dll"}
DeclaredNonText(file_type) ==
    /\ file_type \notin {NoneVal, ""}
    /\ ~StartsWith(file_type, "text/")
    /\ ~Contains(file_type, "document")
    /\ ~Contains(file_type, "sheet")
BinaryOrNonText(file_name, file_type) ==
    \/ Contains(file_name, ".") /\ Lower(AfterLastDot(file_name)) \in NonPdfBinaryExts
    \/ DeclaredNonText(file_type)
MetadataOf(c) ==
    generate_metadata_summary(c.file_name,
                              IF c.file_type \in {NoneVal, ""}
                                  THEN "application/octet-stream" ELSE c.file_type,
                              c.file_size)
ModelUntouched ==
    /\ call.inputs = <<>>
    /\ ~call.initialized
    /\ summarizer = call.handle

\* C11: for a file with a binary/media extension other than pdf, or with a declared
\* MIME type that is not text/*, not document-like and not sheet-like,
\* generate_file_summary returns the metadata summary and neither consults nor
\* initializes the model, whatever the content (empty content included) and whether
\* or not the model is available.
C11_BinaryAlwaysMetadata ==
    (FileSummaryCall /\ BinaryOrNonText(call.file_name, call.file_type)) =>
        (call.result = MetadataOf(call) /\ ModelUntouched)

-----------------------------------------------------------------------------
(* Claims about the summaries of a listing, checked under Spec.            *)

\* the text extraction gave for a listed file, under the env of its request
ExtractionOf(it) == SummaryInput(it, probe.env.files[it.id])
UsableText(it) == ExtractionOf(it) # NoneVal /\ HasNonSpace(ExtractionOf(it))
ModelWorks(it) ==
    /\ SUMMARIZER_AVAILABLE
    /\ probe.env.files[it.id].init
    /\ probe.env.files[it.id].model.kind = "ok"
ListedWithSummaries == Listed /\ probe.flag
ListedFiles == SelectSeq(response.body.items, LAMBDA it : it.type = "file")

\* C12: in a listing with summaries, every file whose extraction yields non-blank
\* text (a PDF read by OCR and declared application/pdf included) is, with the
\* model available, summarized by the model from that text.
C12_TextGoesToModel ==
    ListedWithSummaries =>
        \A k \in 1..Len(ListedFiles) :
            (UsableText(ListedFiles[k]) /\ ModelWorks(ListedFiles[k]))
                => ListedFiles[k].summary = probe.env.files[ListedFiles[k].id].model.text

\* what went wrong for a listed file, under the env of its request
EnvOf(it) == probe.env.files[it.id]
ModelRaised(it) ==
    /\ ~IsOcrFile(it) /\ EnvOf(it).data = "text" /\ EnvOf(it).init
    /\ EnvOf(it).model.kind = "raise"
DownloadFailed(it) == ~IsOcrFile(it) /\ EnvOf(it).data = "fail"
OcrFailed(it) == IsOcrFile(it) /\ EnvOf(it).data = "fail"
MetadataFailed(it) == EnvOf(it).meta = "raise"
SomethingFailed(it) ==
    ModelRaised(it) \/ DownloadFailed(it) \/ OcrFailed(it) \/ MetadataFailed(it)
IsErrorSummary(summary, message) ==
    summary = "Error generating summary: " \o SubSeq(message, 1, Min(50, Len(message)))
SizeKnownTo(it) == IF MetadataFailed(it) THEN NoSize ELSE it.size
\* the folder of the request cannot be listed
FolderLevelFailure ==
    \/ probe.folder \notin DriveFolders
    \/ probe.env.drive # "ok"
DiskFullMsg == "[Errno 28] No space left on device"
ListAnswered ==
    /\ probe.op = "list" /\ probe.folder # NoneVal
    /\ \/ "items" \in DOMAIN response.body
       \/ "error" \in DOMAIN response.body /\ response.body.error # DiskFullMsg
AllItemsListed ==
    /\ Len(response.body.items) = Len(DriveChildren(probe.folder))
    /\ \A c \in 1..Len(DriveChildren(probe.folder)) :
          \E k \in 1..Len(response.body.items) :
              response.body.items[k].id = DriveChildren(probe.folder)[c].id
SummariesMade == Listed /\ probe.flag /\ SUMMARIZER_AVAILABLE

-----------------------------------------------------------------------------
(* Claims about the CSV of an export, checked under Spec.                  *)

WalkedFiles == SelectSeq(probe.items, LAMBDA it : ~it.is_folder)

\* C14: export_csv writes the header Number, Folder Name, File Name, File URL,
\* Summary, Notes, then one data row per file of the traversal and none for a
\* folder, and the Number column counts 1, 2, 3, ... in traversal order, also when
\* folder entries lie between the files.
C14_RowsNumberedFromOne ==
    Exported =>
        /\ response.body.header
              = <<"Number", "Folder Name", "File Name", "File URL", "Summary", "Notes">>
        /\ Len(response.body.rows) = Len(WalkedFiles)
        /\ \A k \in 1..Len(response.body.rows) :
              /\ response.body.rows[k].file_name = WalkedFiles[k].name
              /\ response.body.rows[k].number = k

-----------------------------------------------------------------------------
(* Claims about detect_filetype, checked under SpecCalls.                  *)

Categories == {"PDF", "TEXT", "SCANNED_DOC", "PHOTO", "OTHER"}
\* the extension of each file name tried: the last dotted part of the last path
\* component, in lower case, none for a leading or a trailing dot
ExtensionOf(filename) ==
    CASE filename \in {"doc.pdf", "Doc.PDF"} -> ".pdf"
      [] filename = "notes.txt" -> ".txt"
      [] filename = "data.csv" -> ".csv"
      [] filename = "page.HTML" -> ".html"
      [] filename = "scan.jpg" -> ".jpg"
      [] filename = "old.jpeg" -> ".jpeg"
      [] filename = "photo.png" -> ".png"
      [] filename = "doc.tiff" -> ".tiff"
      [] filename = "anim.gif" -> ".gif"
      [] filename = "archive.tar.gz" -> ".gz"
      [] filename = "clip.mp4" -> ".mp4"
      [] filename \in {"README", ".txt", "notes.txt.", "dir.pdf/file"} -> ""
TextExtensions == {".txt", ".md", ".csv", ".json", ".xml", ".html", ".htm", ".log"}
ImageExtensions == {".jpg", ".jpeg", ".png", ".gif", ".tiff", ".bmp"}
MimeGiven(mime_type) == mime_type \notin {NoneVal, ""}
\* 'contains', whatever the case of the letters of the MIME type
MimeHas(mime_type, word) == MimeGiven(mime_type) /\ Contains(Lower(mime_type), word)
ScanOrPhoto(ext) == IF ext \in {".jpg", ".jpeg", ".tiff"} THEN "SCANNED_DOC" ELSE "PHOTO"
PolicyCategory(ext, mime_type) ==
    IF MimeHas(mime_type, "pdf") THEN "PDF"
    ELSE IF MimeHas(mime_type, "text") /\ ext \in TextExtensions THEN "TEXT"
    ELSE IF MimeHas(mime_type, "image") THEN ScanOrPhoto(ext)
    ELSE IF ext = ".pdf" THEN "PDF"
    ELSE IF ext \in TextExtensions THEN "TEXT"
    ELSE IF ext \in ImageExtensions THEN ScanOrPhoto(ext)
    ELSE "OTHER"

\* C15: for every (filename, MIME type) pair detect_filetype returns a category,
\* and it is the category of the policy: the MIME type first when it is not empty
\* (contains 'pdf' -> PDF; contains 'text' and a text extension -> TEXT; contains
\* 'image' -> SCANNED_DOC for jpg/jpeg/tiff, else PHOTO), otherwise the extension
\* (.pdf -> PDF, text extension -> TEXT, image extension -> SCANNED_DOC or PHOTO,
\* anything else -> OTHER).
C15_DetectFollowsPolicy ==
    DetectCall =>
        /\ call.result \in Categories
        /\ call.result = PolicyCategory(ExtensionOf(call.filename), call.mime_type)

\* a MIME type that wins over the extension, and an extension that decides when
\* the MIME type says nothing
C15_Witness ==
    /\ DetectCall
    /\ \/ call.filename = "notes.txt" /\ call.mime_type = "Application/PDF"
          /\ call.result = "PDF"
       \/ call.filename = "scan.jpg" /\ call.mime_type = "application/octet-stream"
          /\ call.result = "SCANNED_DOC"

-----------------------------------------------------------------------------
(* Claims about generate_metadata_summary, checked under SpecCalls.        *)

\* the extension of each file name tried, in upper case; "" when it has none
UpperExtensionOf(file_name) ==
    CASE file_name = "photo.JPG" -> "JPG"
      [] file_name = "archive.tar.gz" -> "GZ"
      [] file_name = "nosize.txt" -> "TXT"
      [] file_name \in {"README", "odd."} -> ""
TemplateLabel(file_name, file_type) ==
    IF StartsWith(file_type, "image/") THEN "Image file"
    ELSE IF StartsWith(file_type, "video/") THEN "Video file"
    ELSE IF StartsWith(file_type, "audio/") THEN "Audio file"
    ELSE IF file_type = "application/pdf" THEN "PDF document"
    ELSE IF file_type \in {"application/vnd.ms-excel",
                           "application/vnd.openxmlformats-officedocument.spreadsheetml.sheet"}
         THEN "Excel spreadsheet"
    ELSE IF file_type \in {"application/vnd.ms-powerpoint",
                           "application/vnd.openxmlformats-officedocument.presentationml.presentation"}
         THEN "PowerPoint presentation"
    ELSE IF file_type \in {"application/zip", "application/x-zip-compressed"}
         THEN "ZIP archive"
    ELSE IF UpperExtensionOf(file_name) # "" THEN UpperExtensionOf(file_name) \o " file"
    ELSE "Unknown file"
\* what follows the label: a function of the size alone
AfterLabel(file_size) ==
    IF SizeInfo(file_size) = "" THEN "." ELSE " (" \o SizeInfo(file_size) \o ")."

\* C16: generate_metadata_summary picks its template from the MIME type, first
\* match in the order image/*, video/*, audio/*, application/pdf, Excel,
\* PowerPoint, zip, otherwise '<EXTENSION IN UPPERCASE> file', or 'Unknown file'
\* for a name without extension; the result is a function of the file name, the
\* MIME type and the size, whatever the dates passed.
C16_TemplateByMime ==
    MetadataCall =>
        call.result = TemplateLabel(call.file_name, call.file_type)
                         \o AfterLabel(call.file_size)

\* a MIME type that is no image/* although it names images, for a file with a
\* double extension and both dates given
C16_Witness ==
    /\ MetadataCall
    /\ call.file_name = "archive.tar.gz" /\ call.file_type = "application/x-image/png"
    /\ call.created_date # NoneVal /\ call.modified_date # NoneVal
    /\ call.file_size = 1536
    /\ call.result = "GZ file (1.5 KB)."

\* the size text of each known size tried
SizeText(n) ==
    CASE n = 0 -> "0 bytes"
      [] n = 1 -> "1 bytes"
      [] n = 1023 -> "1023 bytes"
      [] n = 1024 -> "1.0 KB"
      [] n = 1075 -> "1.0 KB"
      [] n = 1536 -> "1.5 KB"
      [] n = 1048575 -> "1024.0 KB"
      [] n = 1048576 -> "1.0 MB"
      [] n = 1572864 -> "1.5 MB"
      [] n = 5242880 -> "5.0 MB"
SizeKnown(n) == n # NoSize

\* C17: for every known size n >= 0 generate_metadata_summary appends the size as
\* '(n bytes)' below 1024, one-decimal KB below 1048576, one-decimal MB from there
\* on; the suffix is left out only when the size is unknown, and the sentence ends
\* with a period.
C17_SizeSuffix ==
    MetadataCall =>
        call.result = TemplateLabel(call.file_name, call.file_type)
                         \o (IF SizeKnown(call.file_size)
                             THEN " (" \o SizeText(call.file_size) \o ")." ELSE ".")

-----------------------------------------------------------------------------
(* Claims about the route generate_file_summary takes to the model,        *)
(* checked under SpecCalls.                                                *)

RoutedToModel == FileSummaryCall /\ call.route # "none"
CleanedWords == Split(call.file_content)
CleanedContent == Join(CleanedWords)

\* C20: for content that generate_file_summary routes to the model,
\* recursive_summarize is used if and only if the whitespace-normalised content has
\* more than 900 words; with 900 words or fewer the model is invoked exactly once,
\* directly on the whole cleaned content, and an empty model result then yields
\* 'Could not generate summary for <file name>'.
C20_RecursiveAbove900 ==
    RoutedToModel =>
        /\ (call.route = "recursive_summarize") = (Len(CleanedWords) > 900)
        /\ Len(CleanedWords) <= 900 =>
              /\ call.route = "summarizer"
              /\ call.inputs = <<CleanedContent>>
              /\ call.env.model.kind = "empty" =>
                    call.result = "Could not generate summary for " \o call.file_name

\* exactly 900 words summarized directly, the model returning nothing
C20_Witness ==
    /\ RoutedToModel
    /\ Len(CleanedWords) = 900
    /\ call.route = "summarizer" /\ Len(call.inputs) = 1
    /\ call.env.model.kind = "empty"
    /\ call.result = "Could not generate summary for notes.txt"

-----------------------------------------------------------------------------
(* Claims about the session of the list-files route, checked under Spec.   *)

PointerKeys == {"last_folder_result_id", "last_folder_id"}
\* the most-recent pointer of a session: the pair, or nothing
PointerOf(sess) == [k \in PointerKeys \cap DOMAIN sess |-> sess[k]]
AListStep == probe'.op = "list" /\ probe'.n # probe.n
ListingReturned == "items" \in DOMAIN response.body
\* the pointer names the listing just returned, stored under an id not used before
PointsAtNewListing ==
    /\ PointerKeys \subseteq DOMAIN session'
    /\ session'["last_folder_id"] = probe'.folder
    /\ session'["last_folder_result_id"] \notin DOMAIN tempDir
    /\ ~(PointerKeys \subseteq DOMAIN session
         /\ session'["last_folder_result_id"] = session["last_folder_result_id"])
    /\ session'["last_folder_result_id"] \in DOMAIN tempDir'
    /\ tempDir'[session'["last_folder_result_id"]]
          = [kind |-> "pickle", value |-> response'.body]

-----------------------------------------------------------------------------
(* The global summarizer over a sequence of calls of generate_file_summary *)
(* in one process, each call under its own env.                            *)

MaxLifecycleCalls == 3

LifecycleContents == {"", "hello  world\tfrom a"}
LifecycleFiles ==
    {[name |-> "notes.txt", type |-> "text/plain"],
     [name |-> "photo.jpg", type |-> "image/jpeg"]}
NoLifecycle == [fn |-> "lifecycle", n |-> 0, attempts |-> 0, built |-> 0]

\* the record of the call just made: attempts counts the runs of
\* initialize_summarizer that tried pipeline(...), built those that succeeded
LifecycleCalled(file_content, f, env, got, trace) ==
    /\ call' = [fn |-> "lifecycle", n |-> call.n + 1,
                file_content |-> file_content, file_name |-> f.name, file_type |-> f.type,
                env |-> env, attempted |-> trace.initialized,
                attempts |-> call.attempts + (IF trace.initialized THEN 1 ELSE 0),
                built |-> call.built
                            + (IF trace.initialized /\ got.handle # summarizer THEN 1 ELSE 0),
                result |-> got.summary]
    /\ summarizer' = got.handle

SummarizeNext ==
    /\ call.fn = "lifecycle"
    /\ call.n < MaxLifecycleCalls
    /\ \E file_content \in LifecycleContents, f \in LifecycleFiles, env \in CallEnvs :
         LifecycleCalled(file_content, f, env,
                         generate_file_summary(file_content, f.name, f.type, NoSize,
                                               summarizer, env),
                         FileSummaryTrace(file_content, f.name, f.type, summarizer, env))
    /\ UNCHANGED <<SUMMARIZER_AVAILABLE, rs, session, tempDir, uuidCount, response, probe>>

InitLifecycle ==
    /\ SUMMARIZER_AVAILABLE \in BOOLEAN
    /\ summarizer = NoneVal
    /\ rs = [pc |-> "idle"]
    /\ session = NoSession
    /\ tempDir = NoBlobs
    /\ uuidCount = 0
    /\ response = NoResponse
    /\ probe = NoProbe
    /\ call = NoLifecycle

NextLifecycle == SummarizeNext

SpecLifecycle == InitLifecycle /\ [][NextLifecycle]_vars

\* the call just made reached the model part of generate_file_summary
ReachedModel(c) ==
    /\ SUMMARIZER_AVAILABLE
    /\ c.file_content \notin {NoneVal, ""}
    /\ ~BinaryOrNonText(c.file_name, c.file_type)

\* C22: while the handle is unset each call that reaches the model attempts
\* initialization; a failed attempt leaves the handle unset, returns 'Summary not
\* available (model initialization failed)' and is not remembered, so the next call
\* attempts again; once an attempt has succeeded the handle is never reset and the
\* backend is never constructed again.
C22_HandleLifecycle ==
    [][(call'.fn = "lifecycle" /\ call'.n = call.n + 1) =>
         /\ (summarizer = NoneVal /\ ReachedModel(call')) => call'.attempted
         /\ call'.attempted => (summarizer = NoneVal /\ ReachedModel(call'))
         /\ (call'.attempted /\ ~call'.env.init) =>
               /\ summarizer' = NoneVal
               /\ call'.result = "Summary not available (model initialization failed)"
               /\ call'.built = call.built
         /\ (call'.attempted /\ call'.env.init) =>
               (summarizer' # NoneVal /\ call'.built = call.built + 1)
         /\ summarizer # NoneVal =>
               (summarizer' = summarizer /\ call'.built = call.built)
         /\ call'.built <= 1]_vars

\* a failed attempt, then a successful one, then a call that reuses the handle
C22_Witness ==
    /\ call.fn = "lifecycle" /\ call.n = 3
    /\ call.attempts = 2 /\ call.built = 1
    /\ ~call.attempted /\ ReachedModel(call)
    /\ summarizer = "pipeline"

-----------------------------------------------------------------------------
(* Requests served by concurrent threads of one process, each at its first *)
(* use of the summarizer (app.py:204-211 calling app.py:57-70).  A thread  *)
(* runs one statement per step; nothing in the source holds a lock.        *)

NumThreads == 3
Threads == 1..NumThreads

NoRace == [fn |-> "race", pc |-> [t \in Threads |-> "start"], built |-> 0]
At(t, where) == call.fn = "race" /\ call.pc[t] = where
Goto(t, where) == [call EXCEPT !.pc[t] = where]
\* what no statement of a thread at this place touches
RestUnchanged ==
    UNCHANGED <<SUMMARIZER_AVAILABLE, rs, session, tempDir, uuidCount, response, probe>>

\* app.py:206, `if summarizer is None:`
T_CheckUnset(t) ==
    /\ At(t, "start")
    /\ call' = Goto(t, IF summarizer = NoneVal THEN "calling" ELSE "ready")
    /\ UNCHANGED summarizer
    /\ RestUnchanged

\* app.py:60, `if SUMMARIZER_AVAILABLE and summarizer is None:`
T_CheckInside(t) ==
    /\ At(t, "calling")
    /\ call' = Goto(t, IF SUMMARIZER_AVAILABLE /\ summarizer = NoneVal
                       THEN "constructing" ELSE "ready")
    /\ UNCHANGED summarizer
    /\ RestUnchanged

\* app.py:64, the right-hand side: pipeline(...) returns a backend or raises
T_Construct(t) ==
    /\ At(t, "constructing")
    /\ \/ call' = [Goto(t, "assigning") EXCEPT !.built = @ + 1]
       \/ call' = Goto(t, "failed")
    /\ UNCHANGED summarizer
    /\ RestUnchanged

\* app.py:64, the assignment to the global
T_Assign(t) ==
    /\ At(t, "assigning")
    /\ summarizer' = "pipeline"
    /\ call' = Goto(t, "ready")
    /\ RestUnchanged

\* app.py:213-237, the request summarizes with the global and ends
T_Summarize(t) ==
    /\ At(t, "ready")
    /\ call' = Goto(t, "done")
    /\ UNCHANGED summarizer
    /\ RestUnchanged

InitRace ==
    /\ SUMMARIZER_AVAILABLE = TRUE
    /\ summarizer = NoneVal
    /\ rs = [pc |-> "idle"]
    /\ session = NoSession
    /\ tempDir = NoBlobs
    /\ uuidCount = 0
    /\ response = NoResponse
    /\ probe = NoProbe
    /\ call = NoRace

NextRace ==
    \E t \in Threads :
        \/ T_CheckUnset(t)
        \/ T_CheckInside(t)
        \/ T_Construct(t)
        \/ T_Assign(t)
        \/ T_Summarize(t)

SpecRace == InitRace /\ [][NextRace]_vars

\* C23: under any interleaving of concurrent requests whose first use of the
\* summarizer overlaps, the backend is constructed once per process and the one
\* handle is reused by all requests.
C23_BuiltOnce == call.fn = "race" => call.built <= 1

-----------------------------------------------------------------------------
(* Claims about the order of a listing, checked under SpecCalls.           *)

ListingCall == call.fn = "list_files_in_folder" /\ call.n > 0
\* the place of each name tried among the names compared without regard to case
NamePlace(name) ==
    CASE name = "a.txt" -> 1 [] name = "archive" -> 2 [] name = "B.md" -> 3
      [] name = "Sub" -> 4
FoldersFirstThenName(items) ==
    \A i, j \in 1..Len(items) :
        i < j =>
            /\ ~(items[i].type = "file" /\ items[j].type = "folder")
            /\ items[i].type = items[j].type
                  => NamePlace(items[i].name) < NamePlace(items[j].name)
SameItems(items, returned) ==
    /\ Len(items) = Len(returned)
    /\ \A i \in 1..Len(returned) : \E k \in 1..Len(items) : items[k].id = returned[i].id

\* C24: the items list_files_in_folder returns are the items of the folder with
\* every folder before every file and, within each group, in the order of their
\* names compared without regard to case, whatever order Drive returned them in and
\* whether or not summaries were generated.
C24_FoldersFirstByName ==
    ListingCall =>
        /\ SameItems(call.items, call.result)
        /\ FoldersFirstThenName(call.result)

\* Drive returned B.md, Sub, a.txt, archive; summaries were generated
C24_Witness ==
    /\ ListingCall /\ call.generate_summaries /\ SUMMARIZER_AVAILABLE
    /\ call.items = <<FileB, FolderSub, FileA, FolderArchive>>
    /\ [k \in 1..4 |-> call.result[k].name] = <<"archive", "Sub", "a.txt", "B.md">>
    /\ call.result[3].summary = "s1"

-----------------------------------------------------------------------------
(* The standalone extractor: FileProcessor (file_processor.py), the folder *)
(* loop of DriveService (drive_integration.py), the byte decoding of       *)
(* download_file_content (app.py:314-346) and the PDF extraction of the    *)
(* listing (app.py:444-455).  A text is a sequence of code points and a    *)
(* byte string a sequence of numbers 0..255.  The byte alphabet of the     *)
(* model holds one- and two-byte UTF-8 forms and bytes that are valid in   *)
(* no form; three- and four-byte lead bytes are not part of it.            *)

TextCap == 5000
ReplacementChar == 65533
Newline == 10
Space == 32

IsContinuation(b) == b >= 128 /\ b <= 191
IsLead2(b) == b >= 194 /\ b <= 223

\* byte i opens a well-formed two-byte form
OpensPair(bytes, i) == IsLead2(bytes[i]) /\ i < Len(bytes) /\ IsContinuation(bytes[i + 1])

\* byte i is the second byte of a well-formed two-byte form
ClosesPair(bytes, i) == i > 1 /\ IsContinuation(bytes[i]) /\ IsLead2(bytes[i - 1])

\* byte i cannot be decoded: the case in which bytes.decode('utf-8') raises
\* UnicodeDecodeError and errors='replace' writes U+FFFD
Undecodable(bytes, i) ==
    bytes[i] >= 128 /\ ~OpensPair(bytes, i) /\ ~ClosesPair(bytes, i)

RECURSIVE DecodeFrom(_, _)
DecodeFrom(bytes, i) ==
    IF i > Len(bytes) THEN <<>>
    ELSE IF bytes[i] < 128 THEN <<bytes[i]>> \o DecodeFrom(bytes, i + 1)
    ELSE IF OpensPair(bytes, i)
    THEN <<(bytes[i] - 192) * 64 + (bytes[i + 1] - 128)>> \o DecodeFrom(bytes, i + 2)
    ELSE <<ReplacementChar>> \o DecodeFrom(bytes, i + 1)

\* bytes.decode('utf-8', errors='replace'); a long string is decoded in two
\* halves cut between two forms
RECURSIVE DecodeReplace(_)
DecodeReplace(bytes) ==
    IF Len(bytes) <= 8 THEN DecodeFrom(bytes, 1)
    ELSE DecodeReplace(SubSeq(bytes, 1,
                              IF OpensPair(bytes, Len(bytes) \div 2)
                              THEN (Len(bytes) \div 2) + 1 ELSE Len(bytes) \div 2))
         \o DecodeReplace(SubSeq(bytes,
                                 (IF OpensPair(bytes, Len(bytes) \div 2)
                                  THEN (Len(bytes) \div 2) + 1 ELSE Len(bytes) \div 2) + 1,
                                 Len(bytes)))

\* bytes.decode('utf-8'): the text, or UnicodeDecodeError
DecodeStrict(bytes) ==
    IF \E i \in 1..Len(bytes) : Undecodable(bytes, i)
    THEN [raised |-> TRUE, text |-> <<>>]
    ELSE [raised |-> FALSE, text |-> DecodeReplace(bytes)]

\* text[:n]
FirstChars(text, n) == SubSeq(text, 1, IF Len(text) < n THEN Len(text) ELSE n)

\* not text.strip()
BlankText(text) == \A k \in 1..Len(text) : text[k] \in {Space, Newline, 9, 13}

\* sep.join(texts)
RECURSIVE JoinTexts(_, _)
JoinTexts(sep, texts) ==
    IF texts = <<>> THEN <<>>
    ELSE IF Len(texts) = 1 THEN texts[1]
    ELSE texts[1] \o sep \o JoinTexts(sep, Tail(texts))

\* a value of Optional[str]
SomeText(text) == [isNone |-> FALSE, text |-> text]
NoText == [isNone |-> TRUE, text |-> <<>>]

\* the two enumerations named FileType: file_processor.py:10-15, file_type.py:8-13
FileTypeNames == {"TEXT", "PDF", "SCANNED_DOC", "PHOTO", "OTHER"}
ProcessorFileType(n) == [enum |-> "file_processor.FileType", name |-> n]
DetectedFileType(n) == [enum |-> "file_type.FileType", name |-> n]

\* file_processor.py:38-39; the decode raises inside process, which returns None
process_text(file_bytes) ==
    IF DecodeStrict(file_bytes).raised
    THEN [value |-> NoText, branch |-> "text", trace |-> <<"decode">>]
    ELSE [value |-> SomeText(FirstChars(DecodeStrict(file_bytes).text, TextCap)),
          branch |-> "text", trace |-> <<"decode">>]

\* file_processor.py:41-50; env.local is what extract_text_locally returns and
\* env.vision what VisionProcessor.extract_text returns
process_pdf(env) ==
    IF BlankText(env.local)
    THEN [value |-> SomeText(FirstChars(IF env.vision.isNone THEN <<>> ELSE env.vision.text,
                                        TextCap)),
          branch |-> "pdf", trace |-> <<"local", "ocr">>]
    ELSE [value |-> SomeText(FirstChars(env.local, TextCap)),
          branch |-> "pdf", trace |-> <<"local">>]

\* file_processor.py:21-36; members of an Enum are equal only to themselves
process(file_bytes, file_type, env) ==
    IF file_type = ProcessorFileType("TEXT") THEN process_text(file_bytes)
    ELSE IF file_type = ProcessorFileType("PDF") THEN process_pdf(env)
    ELSE IF file_type = ProcessorFileType("SCANNED_DOC")
    THEN [value |-> env.vision, branch |-> "ocr", trace |-> <<"ocr">>]
    ELSE IF file_type = ProcessorFileType("PHOTO")
    THEN [value |-> SomeText(JoinTexts(<<44, Space>>, env.labels)),
          branch |-> "labels", trace |-> <<"labels">>]
    ELSE [value |-> NoText, branch |-> "fallback", trace |-> <<>>]

\* ocr_utils.py:44-54; pages are the texts image_to_string reads off the pages
extract_text_from_pdf_bytes(pages, pdf2image) ==
    IF ~pdf2image THEN [raised |-> TRUE, text |-> <<>>]
    ELSE [raised |-> FALSE, text |-> JoinTexts(<<Newline>>, pages)]

\* app.py:444-455: the text the listing extracts from a file named *.pdf
ListingPdfText(pages, pdf2image) ==
    IF extract_text_from_pdf_bytes(pages, pdf2image).raised THEN <<>>
    ELSE extract_text_from_pdf_bytes(pages, pdf2image).text

\* app.py:319-346: the content of a download, None when the decode raises
DecodeDownloaded(mime_type, file_bytes) ==
    IF Contains(mime_type, "google-apps")
    THEN IF DecodeStrict(file_bytes).raised THEN NoText
         ELSE SomeText(DecodeStrict(file_bytes).text)
    ELSE SomeText(DecodeReplace(file_bytes))

\* inputs
LongBytes(n) == [k \in 1..n |-> 104]
ByteInputs ==
    {<<>>, <<104, 105>>, <<104, 255, 105>>, <<195, 169>>, <<195>>, <<169, 104>>,
     <<195, 104, 33>>, <<104, 195, 169, 169>>, <<32, 10>>,
     LongBytes(TextCap), LongBytes(TextCap + 1), LongBytes(TextCap) \o <<255>>,
     <<195, 169>> \o LongBytes(TextCap)}
LocalTexts == {<<>>, <<Space, Newline>>, <<76, 49>>, LongBytes(TextCap + 1)}
VisionTexts == {NoText, SomeText(<<>>), SomeText(<<86, 49>>)}
LabelLists == {<<>>, <<(<<99, 97, 116>>)>>, <<(<<99, 97, 116>>), (<<112, 101, 116>>)>>}
ExtractEnvs ==
    {[local |-> l, vision |-> v, labels |-> b] :
        l \in LocalTexts, v \in VisionTexts, b \in LabelLists}
PageLists == {<<>>, <<(<<80, 49>>)>>, <<(<<80, 49>>), (<<80, 50>>)>>,
              <<(<<80, 49>>), (<<>>), (<<80, 51>>)>>, <<(<<Space>>), (<<>>)>>}
FolderFiles ==
    {[name |-> "notes.txt", mimeType |-> "text/plain"],
     [name |-> "report.pdf", mimeType |-> "application/pdf"],
     [name |-> "scan.tiff", mimeType |-> "image/tiff"],
     [name |-> "photo.png", mimeType |-> "image/png"],
     [name |-> "clip.mp4", mimeType |-> "video/mp4"],
     [name |-> "readme.md", mimeType |-> ""]}
DownloadMimes == {"text/plain", "application/vnd.google-apps.document"}

ProcessInputs ==
    {[fn |-> "process", n |-> 0, file_bytes |-> b, file_type |-> ProcessorFileType(t),
      env |-> e] : b \in ByteInputs, t \in FileTypeNames, e \in ExtractEnvs}
ProcessFolderInputs ==
    {[fn |-> "process_folder", n |-> 0, file |-> f, file_bytes |-> b, env |-> e] :
        f \in FolderFiles, b \in ByteInputs, e \in ExtractEnvs}
DownloadInputs ==
    {[fn |-> "download_file_content", n |-> 0, mime_type |-> m, file_bytes |-> b] :
        m \in DownloadMimes, b \in ByteInputs}
ListingPdfInputs ==
    {[fn |-> "listing_pdf", n |-> 0, local |-> l, pages |-> p, pdf2image |-> a] :
        l \in LocalTexts, p \in PageLists, a \in BOOLEAN}

ExtractRest == UNCHANGED <<SUMMARIZER_AVAILABLE, summarizer, rs, session, tempDir,
                          uuidCount, response, probe>>

\* FileProcessor.process, file_processor.py:21-36
CallProcess ==
    /\ call.fn = "process"
    /\ call.n = 0
    /\ call' = [call EXCEPT !.n = 1] @@
               [result |-> process(call.file_bytes, call.file_type, call.env)]
    /\ ExtractRest

\* one round of the loop of DriveService.process_folder, drive_integration.py:24-35
CallProcessFolder ==
    /\ call.fn = "process_folder"
    /\ call.n = 0
    /\ call' = [call EXCEPT !.n = 1] @@
               [type |-> detect_filetype(call.file.name, call.file.mimeType),
                result |-> process(call.file_bytes,
                                   DetectedFileType(detect_filetype(call.file.name,
                                                                    call.file.mimeType)),
                                   call.env)]
    /\ ExtractRest

\* download_file_content, app.py:314-346
CallDownload ==
    /\ call.fn = "download_file_content"
    /\ call.n = 0
    /\ call' = [call EXCEPT !.n = 1] @@
               [result |-> DecodeDownloaded(call.mime_type, call.file_bytes)]
    /\ ExtractRest

\* the extraction of list_files_in_folder for a *.pdf item, app.py:444-455;
\* the text layer (call.local) is never read
CallListingPdf ==
    /\ call.fn = "listing_pdf"
    /\ call.n = 0
    /\ call' = [call EXCEPT !.n = 1] @@
               [result |-> [value |-> SomeText(ListingPdfText(call.pages, call.pdf2image)),
                            branch |-> "pdf", trace |-> <<"ocr">>]]
    /\ ExtractRest

InitExtract ==
    /\ SUMMARIZER_AVAILABLE = TRUE
    /\ summarizer = NoneVal
    /\ rs = [pc |-> "idle"]
    /\ session = NoSession
    /\ tempDir = NoBlobs
    /\ uuidCount = 0
    /\ response = NoResponse
    /\ probe = NoProbe
    /\ call \in ProcessInputs \cup ProcessFolderInputs \cup DownloadInputs
                \cup ListingPdfInputs

NextExtract == CallProcess \/ CallProcessFolder \/ CallDownload \/ CallListingPdf

SpecExtract == InitExtract /\ [][NextExtract]_vars

-----------------------------------------------------------------------------
(* Claims about the extractors, checked under SpecExtract.                 *)

\* a call that ran a PDF extractor, and the text layer of its PDF
PdfExtracted == call.n = 1 /\ call.fn \in {"process", "listing_pdf"} /\ call.result.branch = "pdf"
TextLayer == IF call.fn = "process" THEN call.env.local ELSE call.local
OcrInvoked == \E k \in DOMAIN call.result.trace : call.result.trace[k] = "ocr"

\* C25: the plain-text extractor decodes any byte sequence as UTF-8 with
\* undecodable bytes replaced, so a text always comes back: FileProcessor
\* returns the first 5000 characters of that text, and the download of a
\* regular file returns the text whole
C25_EveryBytesYieldText ==
    /\ (call.fn = "process" /\ call.n = 1 /\ call.file_type = ProcessorFileType("TEXT"))
          => call.result.value = SomeText(FirstChars(DecodeReplace(call.file_bytes), TextCap))
    /\ (call.fn = "download_file_content" /\ call.n = 1 /\ call.mime_type = "text/plain")
          => call.result = SomeText(DecodeReplace(call.file_bytes))

\* C26: a PDF extraction reads the text layer first and invokes OCR exactly
\* when the text layer is empty or whitespace-only, and the OCR of the pages
\* is the page texts joined by newlines in page order
C26_LocalFirstOcrOnlyWhenBlank ==
    PdfExtracted =>
        /\ call.result.trace # <<>>
        /\ call.result.trace[1] = "local"
        /\ OcrInvoked <=> BlankText(TextLayer)
        /\ (call.fn = "listing_pdf" /\ call.pdf2image)
              => call.result.value = SomeText(JoinTexts(<<Newline>>, call.pages))

\* the branch of process that matches a classification
MatchingBranch(t) ==
    CASE t = "TEXT" -> "text"
      [] t = "PDF" -> "pdf"
      [] t = "SCANNED_DOC" -> "ocr"
      [] t = "PHOTO" -> "labels"
      [] OTHER -> "fallback"

\* C30: in process_folder a file classified TEXT, PDF, SCANNED_DOC or PHOTO is
\* handled by the matching branch of process, and the fallback that returns
\* None is taken only for a file classified OTHER
C30_MatchingBranch ==
    (call.fn = "process_folder" /\ call.n = 1)
        => call.result.branch = MatchingBranch(call.type)

-----------------------------------------------------------------------------
(* Claims about a list-files request without credentials, checked under    *)
(* Spec.                                                                   *)

\* authenticate() finds no token in the session (app.py:265-266)
NoUsableCredentials == "token" \notin DOMAIN session
\* a list-files request that names a folder arrives at such a session
AnUnauthenticatedListStep ==
    /\ AListStep
    /\ probe'.folder # NoneVal
    /\ NoUsableCredentials

-----------------------------------------------------------------------------
(* get_all_files_recursive called on its own (app.py:630-830): the session *)
(* points at a stored listing of the folder, and the stored file holds a   *)
(* listing as list_files wrote it, the same listing with one key missing   *)
(* from one item, or bytes that pickle.load rejects.                       *)

\* the listing of F1 as list_files stores it, every file with a summary
StoredListing ==
    Listing("F1", TRUE, ProcessItems(DriveChildren("F1"), TRUE, CalmEnv,
                                     [items |-> <<>>, handle |-> "pipeline"])).value

\* a dict without one of its keys
WithoutKey(item, key) == [k \in DOMAIN item \ {key} |-> item[k]]

\* the stored listing whose item at position k lacks a key
Damaged(k, key) ==
    [StoredListing EXCEPT !.items = [StoredListing.items EXCEPT ![k] = WithoutKey(@, key)]]

WalkBlobs ==
    {[kind |-> "pickle", value |-> StoredListing],
     [kind |-> "pickle", value |-> Damaged(1, "name")],
     [kind |-> "pickle", value |-> Damaged(1, "id")],
     [kind |-> "pickle", value |-> Damaged(2, "name")],
     [kind |-> "pickle", value |-> Damaged(3, "name")],
     [kind |-> "truncated"]}

WalkEnvs ==
    {CalmEnv,
     [CalmEnv EXCEPT !.drive = "listfail"],
     [CalmEnv EXCEPT !.files = [f \in FileIds |-> IF f = "a" THEN ModelRaises ELSE AllGoesWell]]}

WalkInputs ==
    {[fn |-> "get_all_files_recursive", n |-> 0, folder_id |-> f, include_summaries |-> g,
      env |-> e] : f \in {"F1", "F2"}, g \in BOOLEAN, e \in WalkEnvs}

\* get_all_files_recursive(service, folder_id, "Root", include_summaries); the
\* record keeps what the attempt on the stored listing left behind
CallGetAllFiles ==
    /\ call.fn = "get_all_files_recursive"
    /\ call.n = 0
    /\ call' = [call EXCEPT !.n = 1] @@
               [tried |-> WalkTriesCache(call.folder_id, call.include_summaries),
                cached |-> CachedAttempt(call.folder_id, "Root", call.include_summaries,
                                         NewWalk(summarizer), call.env),
                handle |-> summarizer,
                result |-> get_all_files_recursive(call.folder_id, "Root",
                                                   call.include_summaries,
                                                   NewWalk(summarizer), call.env).items]
    /\ summarizer' = get_all_files_recursive(call.folder_id, "Root", call.include_summaries,
                                             NewWalk(summarizer), call.env).handle
    /\ UNCHANGED <<SUMMARIZER_AVAILABLE, rs, session, tempDir, uuidCount, response, probe>>

InitWalk ==
    /\ SUMMARIZER_AVAILABLE = TRUE
    /\ summarizer = "pipeline"
    /\ rs = [pc |-> "idle"]
    /\ session = [token |-> "token-json", last_folder_result_id |-> "r1",
                  last_folder_id |-> "F1"]
    /\ tempDir \in {[r \in {"r1"} |-> b] : b \in WalkBlobs}
    /\ uuidCount = 1
    /\ response = NoResponse
    /\ probe = NoProbe
    /\ call \in WalkInputs

NextWalk == CallGetAllFiles

SpecWalk == InitWalk /\ [][NextWalk]_vars

-----------------------------------------------------------------------------
(* Claims about a failed read of the stored listing, checked under         *)
(* SpecWalk.                                                               *)

WalkCall == call.fn = "get_all_files_recursive" /\ call.n = 1

\* the stored listing was being converted when the read failed
CacheFailedPartway ==
    /\ WalkCall
    /\ call.tried
    /\ call.cached.failed
    /\ call.cached.walk.items # <<>>

\* what walking Drive alone returns for the call
FreshWalk ==
    FetchFromDrive(call.folder_id, "Root", call.include_summaries, NewWalk(call.handle),
                   call.env).items

\* C28: when the use of the stored listing fails after some of its items were
\* converted, get_all_files_recursive returns exactly the list of the fresh
\* walk of Drive: nothing taken from the failed read remains and no file
\* appears twice
C28_FailedCacheLeavesNothing ==
    CacheFailedPartway =>
        /\ call.result = FreshWalk
        /\ \A i, j \in DOMAIN call.result :
              (call.result[i].name = call.result[j].name
               /\ call.result[i].folder_path = call.result[j].folder_path) => i = j

-----------------------------------------------------------------------------
(* Claims about the rows of an export served from the stored listing,      *)
(* checked under Spec.                                                     *)

\* Folder Name, File Name and File URL of every row
RowKeys(rows) == {<<rows[k].folder_name, rows[k].file_name, rows[k].file_url>> :
                     k \in 1..Len(rows)}

\* the rows of an export of the folder recomputed from Drive (app.py:917-926)
RecomputedRows(folder_id) ==
    CsvRows(FetchFromDrive(folder_id, "Root", FALSE, NewWalk(NoneVal), CalmEnv).items)

\* an export answered from the stored listing while Drive answers every call
ServedFromStored == Exported /\ probe.reused /\ probe.env.drive = "ok"

\* C29: an export served from the stored listing has the same file rows as
\* an export of the same folder recomputed from Drive: every file, at root
\* level and in subfolders, with the same Folder Name, File Name and File URL
C29_SameRowsCachedOrRecomputed ==
    ServedFromStored => RowKeys(response.body.rows) = RowKeys(RecomputedRows(probe.folder))

====
